---- MODULE Spec2Model ----
(***************************************************************************)
(* A model of pixano's annotation storage layer:                           *)
(*   - save_item_annotations (src/pixano/api/items.py), the read-modify-   *)
(*     write update of one item of a sharded parquet dataset;              *)
(*   - convert_field (src/pixano/core/arrow_types/__init__.py), the        *)
(*     recursive converter of nested python values to arrow arrays;        *)
(*   - the BBox value type (src/pixano/core/bbox.py).                      *)
(* Strings that the code splits or orders (ids, file names) are sequences  *)
(* of one-character strings.                                               *)
(***************************************************************************)
EXTENDS Integers, Sequences, FiniteSets, TLC

VARIABLES
    disk,      \* shard index -> the parquet file on storage
    pc,        \* transaction -> its position in save_item_annotations
    call,      \* transaction -> the arguments of its current call
    pos,       \* transaction -> index in the sorted file list of the file at hand
    buf,       \* transaction -> the table it built in memory and is writing
    result,    \* transaction -> "none" | "ok" | "error" of its last finished call
    before,    \* transaction -> the disk when its current call began (history)
    written,   \* transaction -> the shards its current call has written (history)
    prev,      \* transaction -> arguments and result of the call before (history)
    log,       \* the reads and writes of shards, in order (history)
    cv,        \* the converter's input and output (convert_field)
    reg,       \* pyarrow's registry of extension types and the registration at hand
    box,       \* a bounding box and what the BBox operations made of it
    stats,     \* the stats side-file and the stats written to it
    emb,       \* the output directory of the embeddings and the run at hand
    details    \* an item for load_item_details and the details it returned

vars ==
    <<disk, pc, call, pos, buf, result, before, written, prev, log, cv, reg, box, stats, emb,
      details>>

\* What the annotation store does not touch.
libVars == <<cv, reg, box, stats, emb, details>>

storeVars == <<disk, pc, call, pos, buf, result, before, written, prev, log>>

-----------------------------------------------------------------------------
(* Sequences *)

Range(s) == {s[i] : i \in DOMAIN s}

RECURSIVE Flatten(_)
Flatten(ss) == IF ss = <<>> THEN <<>> ELSE Head(ss) \o Flatten(Tail(ss))

Min(S) == CHOOSE x \in S : \A y \in S : x <= y

Max(S) == CHOOSE x \in S : \A y \in S : x >= y

-----------------------------------------------------------------------------
(* natural_key: pixano.utils.natural_key, used at items.py:275,323,327.    *)
(* The digit runs of a string compare as integers.                         *)

Digits == <<"0", "1", "2", "3", "4", "5", "6", "7", "8", "9">>

IsDigit(c) == c \in Range(Digits)

DigitVal(c) == (CHOOSE i \in DOMAIN Digits : Digits[i] = c) - 1

\* The code point order of the characters the model uses.
CharCode(c) ==
    IF IsDigit(c) THEN 48 + DigitVal(c)
    ELSE CASE c = "." -> 46
           [] c = "_" -> 95
           [] c = "a" -> 97
           [] c = "b" -> 98
           [] c = "s" -> 115
           [] OTHER -> 122

RECURSIVE DecimalValue(_, _)
DecimalValue(ds, acc) ==
    IF ds = <<>> THEN acc ELSE DecimalValue(Tail(ds), 10 * acc + DigitVal(Head(ds)))

\* re.split(r"(\d+)", string): text, digits, text, ..., text.
RECURSIVE ReSplit(_, _, _)
ReSplit(s, cur, acc) ==
    IF s = <<>>
    THEN IF cur.num
         THEN acc \o <<cur, [num |-> FALSE, txt |-> <<>>]>>
         ELSE Append(acc, cur)
    ELSE LET c == Head(s) IN
         IF IsDigit(c) = cur.num
         THEN ReSplit(Tail(s), [cur EXCEPT !.txt = Append(@, c)], acc)
         ELSE ReSplit(Tail(s), [num |-> IsDigit(c), txt |-> <<c>>], Append(acc, cur))

\* [int(s) if s.isdecimal() else s for s in re.split(...)]
natural_key(s) ==
    LET parts == ReSplit(s, [num |-> FALSE, txt |-> <<>>], <<>>) IN
    [i \in DOMAIN parts |->
        IF parts[i].num
        THEN [num |-> TRUE, n |-> DecimalValue(parts[i].txt, 0), txt |-> <<>>]
        ELSE [num |-> FALSE, n |-> 0, txt |-> parts[i].txt]]

\* str < str of python: by code point, a proper prefix first.
RECURSIVE TextLess(_, _)
TextLess(a, b) ==
    IF b = <<>> THEN FALSE
    ELSE IF a = <<>> THEN TRUE
    ELSE IF Head(a) # Head(b) THEN CharCode(Head(a)) < CharCode(Head(b))
    ELSE TextLess(Tail(a), Tail(b))

TokenLess(x, y) == IF x.num THEN x.n < y.n ELSE TextLess(x.txt, y.txt)

\* list < list of python: the first differing element decides, a proper prefix first.
RECURSIVE KeyLess(_, _)
KeyLess(k1, k2) ==
    IF k2 = <<>> THEN FALSE
    ELSE IF k1 = <<>> THEN TRUE
    ELSE IF Head(k1) # Head(k2) THEN TokenLess(Head(k1), Head(k2))
    ELSE KeyLess(Tail(k1), Tail(k2))

NaturalLess(a, b) == KeyLess(natural_key(a), natural_key(b))

\* sorted(..., key=natural_key) is stable: the permutation it applies, as the
\* sequence of the source positions.
RECURSIVE InsertStable(_, _, _)
InsertStable(i, perm, keys) ==
    IF perm = <<>> THEN <<i>>
    ELSE IF NaturalLess(keys[i], keys[Head(perm)])
         THEN <<i>> \o perm
         ELSE <<Head(perm)>> \o InsertStable(i, Tail(perm), keys)

RECURSIVE SortPerm(_, _)
SortPerm(keys, n) ==
    IF n = 0 THEN <<>> ELSE InsertStable(n, SortPerm(keys, n - 1), keys)

\* [x for _, x in sorted(zip(keys, xs), key=lambda pair: natural_key(pair[0]))]
SortedByKey(keys, xs) ==
    LET perm == SortPerm(keys, Len(keys)) IN [i \in DOMAIN perm |-> xs[perm[i]]]

NaturallySorted(ids) ==
    \A i, j \in DOMAIN ids : i < j => ~NaturalLess(ids[j], ids[i])

-----------------------------------------------------------------------------
(* Masks: pixano.core.CompressedRLE and the mask helpers of pixano.utils.   *)
(* A mask is a row-major boolean image; the URLE form holds its run lengths *)
(* (the first run is background), the compressed form packs each run length *)
(* into one byte.                                                           *)

NoMask == [kind |-> "none", size |-> <<>>, counts |-> <<>>]

\* The byte that packs one run length (run lengths below 48 fit one byte).
RleByteBase == 48

\* CompressedRLE.from_urle(urle): items.py:267
from_urle(m) ==
    [kind |-> "rle", size |-> m.size,
     counts |-> [i \in DOMAIN m.counts |-> m.counts[i] + RleByteBase]]

\* CompressedRLE.to_urle(): items.py:198
to_urle(m) ==
    [kind |-> "urle", size |-> m.size,
     counts |-> [i \in DOMAIN m.counts |-> m.counts[i] - RleByteBase]]

RECURSIVE Runs(_, _)
Runs(counts, bit) ==
    IF counts = <<>> THEN <<>>
    ELSE [i \in 1..Head(counts) |-> bit] \o Runs(Tail(counts), 1 - bit)

\* CompressedRLE.to_mask(): the pixels, mask[r][c], r in 1..height, c in 1..width
to_mask(m) ==
    LET px == Runs(to_urle(m).counts, 0)
        h == m.size[1]
        w == m.size[2]
    IN [r \in 1..h |-> [c \in 1..w |-> px[(r - 1) * w + c]]]

\* pixano.utils.mask_to_bbox: the rectangle of the foreground pixels, [x, y, w, h]
mask_to_bbox(mask) ==
    LET rows == {r \in DOMAIN mask : \E c \in DOMAIN mask[r] : mask[r][c] = 1}
        cols == {c \in DOMAIN mask[1] : \E r \in DOMAIN mask : mask[r][c] = 1}
    IN <<Min(cols) - 1, Min(rows) - 1, Max(cols) - Min(cols) + 1, Max(rows) - Min(rows) + 1>>

-----------------------------------------------------------------------------
(* BBox: src/pixano/core/bbox.py *)

\* confidence=None
NoConfidence == [given |-> FALSE, value |-> 0]

\* confidence=value, in hundredths
Confidence(value) == [given |-> TRUE, value |-> value]

NoBBox ==
    [kind |-> "none", coords |-> <<>>, format |-> "", is_normalized |-> FALSE,
     confidence |-> NoConfidence]

\* BBox.__init__(coords, format, is_normalized, confidence): bbox.py:45-67
BBoxInit(coords, format, is_normalized, confidence) ==
    [kind |-> "bbox", coords |-> coords, format |-> format, is_normalized |-> is_normalized,
     confidence |-> confidence]

\* BBox(coords, format, is_normalized), confidence left to its default
BBox(coords, format, is_normalized) == BBoxInit(coords, format, is_normalized, NoConfidence)

\* BBox.from_xywh(xywh): BBox(xywh, "xywh"), is_normalized left to its default
BBoxFromXywh(xywh) == BBox(xywh, "xywh", TRUE)

\* BBox.from_mask(mask)
BBoxFromMask(mask) == BBoxFromXywh(mask_to_bbox(mask))

\* The bbox of the previous ObjectAnnotation type: a flat [x, y, w, h].
FlatBBox(coords) ==
    [kind |-> "flat", coords |-> coords, format |-> "", is_normalized |-> FALSE,
     confidence |-> NoConfidence]

ZeroCoords == <<0, 0, 0, 0>>

-----------------------------------------------------------------------------
(* ObjectAnnotation: the fields save_item_annotations reads or writes, and  *)
(* category_name for the ones it must leave alone.                          *)

ObjectAnnotation(id, bbox, mask, mask_source, bbox_source) ==
    [id |-> id, view_id |-> "image", bbox |-> bbox, mask |-> mask,
     mask_source |-> mask_source, bbox_source |-> bbox_source,
     category_name |-> "ship"]

Urle1 == [kind |-> "urle", size |-> <<2, 2>>, counts |-> <<1, 1, 1, 1>>]

Urle2 == [kind |-> "urle", size |-> <<2, 2>>, counts |-> <<0, 2, 2>>]

GivenBBox == BBox(<<1, 0, 1, 1>>, "xywh", TRUE)

AnnMaskOnly == ObjectAnnotation("o1", BBox(ZeroCoords, "xywh", TRUE), Urle1, "sam", "")

AnnWithBBox == ObjectAnnotation("o2", GivenBBox, Urle2, "", "det")

AnnNoBBox == ObjectAnnotation("o3", NoBBox, Urle1, "sam", "")

AnnNoMask == ObjectAnnotation("o4", GivenBBox, NoMask, "", "det")

\* The annotation lists a caller sends.
AnnLists ==
    { <<>>, <<AnnMaskOnly>>, <<AnnWithBBox>>, <<AnnMaskOnly, AnnWithBBox>>,
      <<AnnWithBBox, AnnMaskOnly>>, <<AnnNoBBox>>, <<AnnWithBBox, AnnNoMask>> }

\* items.py:267-272, one annotation that has a mask and a bbox
PrepareAnnotation(ann) ==
    LET mask == from_urle(ann.mask) IN
    [ann EXCEPT !.mask = mask,
                !.bbox = IF ann.bbox.coords # ZeroCoords
                         THEN ann.bbox
                         ELSE BBoxFromMask(to_mask(mask))]

\* items.py:267,270: ann.mask.to_dict() and ann.bbox.coords raise on None
PrepareFails(anns) ==
    \E i \in DOMAIN anns : anns[i].mask.kind = "none" \/ anns[i].bbox.kind = "none"

\* items.py:266-272, the loop: defined when not PrepareFails(anns)
PrepareAnnotations(anns) == [i \in DOMAIN anns |-> PrepareAnnotation(anns[i])]

-----------------------------------------------------------------------------
(* convert_field: src/pixano/core/arrow_types/__init__.py:64-113            *)
(* A python value is [k, v]: None, a str, a list or a dict of values. An    *)
(* arrow array is the sequence of the values its to_pylist() gives.         *)

Null == [k |-> "null", v |-> <<>>]

Str(s) == [k |-> "str", v |-> s]

List(xs) == [k |-> "list", v |-> xs]

Struct(f) == [k |-> "struct", v |-> f]

StringType == [k |-> "string"]

ListType(t) == [k |-> "list", e |-> t]

StructType(fs) == [k |-> "struct", f |-> fs]

ExtensionType(t) == [k |-> "ext", s |-> t]

Field(name, t) == [name |-> name, t |-> t]

FieldNames(t) == {t.f[j].name : j \in DOMAIN t.f}

Failed(err) == [ok |-> FALSE, err |-> err, arr |-> <<>>]

Converted(arr) == [ok |-> TRUE, err |-> "", arr |-> arr]

AllNull(data) == \A i \in DOMAIN data : data[i].k = "null"

\* A value of the declared type, nulls allowed at every level; a dict may lack
\* declared fields and has no other.
RECURSIVE Matches(_, _)
Matches(t, x) ==
    \/ x.k = "null"
    \/ CASE t.k = "string" -> x.k = "str"
         [] t.k = "list" -> x.k = "list" /\ \A i \in DOMAIN x.v : Matches(t.e, x.v[i])
         [] t.k = "struct" ->
                /\ x.k = "struct"
                /\ DOMAIN x.v \subseteq FieldNames(t)
                /\ \A j \in DOMAIN t.f :
                      t.f[j].name \in DOMAIN x.v => Matches(t.f[j].t, x.v[t.f[j].name])
         [] t.k = "ext" -> Matches(t.s, x)

\* What to_pylist() gives for pa.array(data, type=t) of a matching value: nulls
\* stay where they are, a field a dict lacks is None.
RECURSIVE TypedValue(_, _)
TypedValue(t, x) ==
    IF x.k = "null" THEN Null
    ELSE CASE t.k = "string" -> x
           [] t.k = "list" -> List([i \in DOMAIN x.v |-> TypedValue(t.e, x.v[i])])
           [] t.k = "struct" ->
                  Struct([n \in FieldNames(t) |->
                      LET ft == (CHOOSE j \in DOMAIN t.f : t.f[j].name = n) IN
                      IF n \in DOMAIN x.v THEN TypedValue(t.f[ft].t, x.v[n]) ELSE Null])
           [] t.k = "ext" -> TypedValue(t.s, x)

\* A conversion that takes every value as it comes.
TypedArrayUnchecked(t, data) == Converted(data)

\* pa.array(field_data, type=t): __init__.py:80,113
TypedArray(t, data) ==
    IF \A i \in DOMAIN data : Matches(t, data[i])
    THEN Converted([i \in DOMAIN data |-> TypedValue(t, data[i])])
    ELSE Failed("ArrowInvalid")

\* native_arr.offsets: the validity bitmap is not part of it, a null list
\* has the offsets of an empty one. __init__.py:88
RECURSIVE Offsets(_)
Offsets(data) ==
    IF data = <<>> THEN <<0>>
    ELSE LET rest == Offsets(SubSeq(data, 1, Len(data) - 1))
             last == data[Len(data)]
         IN Append(rest, rest[Len(rest)] + (IF last.k = "list" THEN Len(last.v) ELSE 0))

\* native_arr.values: __init__.py:89
ListValues(data) ==
    Flatten([i \in DOMAIN data |-> IF data[i].k = "list" THEN data[i].v ELSE <<>>])

\* pa.ListArray.from_arrays(offsets, values): __init__.py:90-93
ListArrayFromArrays(offsets, values) ==
    [i \in 1..(Len(offsets) - 1) |-> List(SubSeq(values, offsets[i] + 1, offsets[i + 1]))]

\* The fields of the struct type pa.array(field_data) infers: __init__.py:97
InferredFields(data) ==
    UNION {DOMAIN data[i].v : i \in {j \in DOMAIN data : data[j].k = "struct"}}

\* native_arr.field(name): the child array; the child of a null struct, and a
\* field a dict lacks, is null. __init__.py:102
StructChild(data, name) ==
    [i \in DOMAIN data |->
        IF data[i].k = "struct" /\ name \in DOMAIN data[i].v THEN data[i].v[name] ELSE Null]

RECURSIVE convert_field(_, _)
convert_field(field_type, field_data) ==
    CASE field_type.k = "ext" -> TypedArray(field_type.s, field_data)
      [] field_type.k = "list" ->
            IF AllNull(field_data) THEN Converted(field_data)
            ELSE IF \E i \in DOMAIN field_data : field_data[i].k \notin {"null", "list"}
            THEN Failed("AttributeError")
            ELSE LET elements == convert_field(field_type.e, ListValues(field_data)) IN
                 IF ~elements.ok THEN elements
                 ELSE Converted(ListArrayFromArrays(Offsets(field_data), elements.arr))
      [] field_type.k = "struct" ->
            IF AllNull(field_data) THEN Converted(field_data)
            ELSE IF \E i \in DOMAIN field_data : field_data[i].k \notin {"null", "struct"}
            THEN Failed("AttributeError")
            ELSE IF ~(FieldNames(field_type) \subseteq InferredFields(field_data))
            THEN Failed("KeyError")
            ELSE LET fs == field_type.f
                     arrays == [j \in DOMAIN fs |->
                                   convert_field(fs[j].t, StructChild(field_data, fs[j].name))]
                 IN IF \E j \in DOMAIN fs : ~arrays[j].ok
                    THEN arrays[CHOOSE j \in DOMAIN fs : ~arrays[j].ok]
                    ELSE Converted([i \in DOMAIN field_data |->
                            Struct([n \in FieldNames(field_type) |->
                                arrays[CHOOSE j \in DOMAIN fs : fs[j].name = n].arr[i]])])
      [] OTHER -> TypedArray(field_type, field_data)

-----------------------------------------------------------------------------
(* Tables and parquet files. A table is its schema, a sequence of fields    *)
(* [name, type], and one array per field; a type is its str().              *)

StringTypeName == "string"

\* The previous ObjectAnnotation type, compared at items.py:286-289.
LegacyObjectsTypeName ==
    "list<item: struct<id: string, view_id: string, bbox: fixed_size_list<item: float>[4], bbox_source: string, bbox_confidence: float, is_group_of: bool, is_difficult: bool, is_truncated: bool, mask: struct<size: list<item: int32>, counts: binary>, mask_source: string, area: float, pose: struct<cam_R_m2c: fixed_size_list<item: double>[9], cam_t_m2c: fixed_size_list<item: double>[3]>, category_id: int32, category_name: string, identity: string>>"

\* The previous Image type, compared at items.py:296.
LegacyImageTypeName == "extension<Image<CustomExtensionType>>"

\* A type close to the previous ObjectAnnotation type that is not it: the
\* annotation struct without its source fields.
SimilarLegacyTypeName ==
    "list<item: struct<id: string, view_id: string, bbox: fixed_size_list<item: float>[4], bbox_confidence: float, is_group_of: bool, is_difficult: bool, is_truncated: bool, mask: struct<size: list<item: int32>, counts: binary>, area: float, pose: struct<cam_R_m2c: fixed_size_list<item: double>[9], cam_t_m2c: fixed_size_list<item: double>[3]>, category_id: int32, category_name: string, identity: string>>"

\* pa.list_(ObjectAnnotationType): items.py:293
ObjectsTypeName == "list<item: extension<ObjectAnnotation>>"

\* ImageType: items.py:299
ImageTypeName == "extension<Image>"

is_list_of_object_annotation_type(t) == t = ObjectsTypeName

is_image_type(t) == t = ImageTypeName

SchemaField(name, type) == [name |-> name, type |-> type]

SchemaNames(schema) == {schema[i].name : i \in DOMAIN schema}

\* schema.get_field_index(name): 0 stands for pyarrow's -1 (no such field, or several)
get_field_index(schema, name) ==
    LET idx == {i \in DOMAIN schema : schema[i].name = name} IN
    IF Cardinality(idx) = 1 THEN CHOOSE i \in idx : TRUE ELSE 0

\* schema.remove(i), for a valid i
SchemaRemove(schema, i) == SubSeq(schema, 1, i - 1) \o SubSeq(schema, i + 1, Len(schema))

\* items.py:285-300, one field of the file's schema; st is the schema being
\* rebuilt and fields_to_update. schema.remove(-1) raises.
DetectField(field, st) ==
    LET objectsAt == get_field_index(st.schema, "objects")
        st1 == IF field.type # LegacyObjectsTypeName THEN st
               ELSE IF objectsAt = 0 THEN [st EXCEPT !.ok = FALSE]
               ELSE [st EXCEPT
                        !.schema = Append(SchemaRemove(st.schema, objectsAt),
                                          SchemaField(field.name, ObjectsTypeName)),
                        !.fields_to_update = Append(@, field.name)]
        fieldAt == get_field_index(st1.schema, field.name)
    IN IF ~st1.ok \/ field.type # LegacyImageTypeName THEN st1
       ELSE IF fieldAt = 0 THEN [st1 EXCEPT !.ok = FALSE]
       ELSE [st1 EXCEPT
                !.schema = Append(SchemaRemove(st1.schema, fieldAt),
                                  SchemaField(field.name, ImageTypeName)),
                !.fields_to_update = Append(@, field.name)]

RECURSIVE DetectFields(_, _)
DetectFields(fields, st) ==
    IF fields = <<>> \/ ~st.ok THEN st
    ELSE DetectFields(Tail(fields), DetectField(Head(fields), st))

\* A detection that takes the current annotation type for the previous one too.
DetectLegacyOrCurrent(schema) ==
    LET d == DetectFields(schema, [ok |-> TRUE, schema |-> schema, fields_to_update |-> <<>>])
    IN IF d.ok /\ d.fields_to_update = <<>>
       THEN [d EXCEPT !.fields_to_update = <<"objects">>]
       ELSE d

\* items.py:283-300
DetectLegacy(schema) ==
    DetectFields(schema, [ok |-> TRUE, schema |-> schema, fields_to_update |-> <<>>])

\* table[name]
Column(table, name) ==
    table.arrays[CHOOSE i \in DOMAIN table.schema : table.schema[i].name = name]

\* items.py:303-304: the rows of the item, by position
ItemRows(table, item_id) ==
    LET ids == Column(table, "id") IN {i \in DOMAIN ids : ids[i] = item_id}

RECURSIVE SelectRows(_, _)
SelectRows(col, keep) ==
    IF col = <<>> THEN <<>>
    ELSE SelectRows(SubSeq(col, 1, Len(col) - 1), keep)
         \o (IF Len(col) \in keep THEN <<col[Len(col)]>> ELSE <<>>)

\* items.py:309: table.filter(~pc.field("id").isin([item_id])).to_pydict()
TableWithoutItem(table, item_id) ==
    LET keep == DOMAIN Column(table, "id") \ ItemRows(table, item_id) IN
    [n \in SchemaNames(table.schema) |-> SelectRows(Column(table, n), keep)]

\* An item that keeps the objects it had.
ItemWithOldAnnotations(table, item_id, annotations) ==
    LET first == Min(ItemRows(table, item_id)) IN
    [n \in SchemaNames(table.schema) \cup {"objects"} |-> Column(table, n)[first]]

\* An item that takes the incoming list in every annotation-list column.
ItemWithAnnotationsInEveryList(table, item_id, annotations) ==
    LET first == Min(ItemRows(table, item_id))
        lists == {table.schema[i].name : i \in {j \in DOMAIN table.schema :
                     table.schema[j].type = ObjectsTypeName}}
    IN [n \in SchemaNames(table.schema) \cup {"objects"} |->
           IF n \in lists \cup {"objects"} THEN annotations ELSE Column(table, n)[first]]

\* items.py:304,312: item[0] with item[0]["objects"] = annotations
ItemWithAnnotations(table, item_id, annotations) ==
    LET first == Min(ItemRows(table, item_id)) IN
    [n \in SchemaNames(table.schema) \cup {"objects"} |->
        IF n = "objects" THEN annotations ELSE Column(table, n)[first]]

\* items.py:313-314
RECURSIVE AppendItem(_, _, _)
AppendItem(fields, updated_table, item) ==
    IF fields = <<>> THEN updated_table
    ELSE LET name == Head(fields).name IN
         AppendItem(Tail(fields),
                    [updated_table EXCEPT ![name] = Append(@, item[name])], item)

\* zip(a, b) stops at the shorter one
ZipLen(a, b) == IF Len(a) <= Len(b) THEN Len(a) ELSE Len(b)

\* A field left in the order of the append while the ids are sorted.
SortFieldLeftInPlace(ids, col) == col

\* items.py:319-325, one field
SortField(ids, col) ==
    LET n == ZipLen(ids, col) IN SortedByKey(SubSeq(ids, 1, n), SubSeq(col, 1, n))

\* items.py:317-325
RECURSIVE SortFields(_, _)
SortFields(fields, updated_table) ==
    IF fields = <<>> THEN updated_table
    ELSE LET name == Head(fields).name IN
         SortFields(Tail(fields),
                    IF name # "id"
                    THEN [updated_table EXCEPT ![name] = SortField(updated_table["id"], @)]
                    ELSE updated_table)

\* A rewrite that leaves the item where it was appended, at the end.
SortTableSkipped(schema, updated_table) == updated_table

\* items.py:316-327
SortTable(schema, updated_table) ==
    LET sorted == SortFields(schema, updated_table) IN
    [sorted EXCEPT !["id"] = SortedByKey(@, @)]

\* A migration that leaves the sources of an object as they are.
MigrateObjectKeepsSources(obj) ==
    [obj EXCEPT !.bbox = IF obj.bbox.kind = "flat"
                         THEN BBox(obj.bbox.coords, "xywh", TRUE)
                         ELSE obj.bbox]

\* items.py:341-353, one object of a field to update
MigrateObject(obj) ==
    [obj EXCEPT !.bbox = IF obj.bbox.kind = "flat"
                         THEN BBox(obj.bbox.coords, "xywh", TRUE)
                         ELSE obj.bbox,
                !.mask_source = "",
                !.bbox_source = ""]

\* A cell of an objects column that is null: to_pydict gives None for it.
NoneObjects == <<ObjectAnnotation("None", NoBBox, NoMask, "", "")>>

\* items.py:339-341: "for obj in item_objects" raises TypeError on None
MigrateFails(fields, fields_to_update, updated_table) ==
    \E i \in DOMAIN fields :
        /\ is_list_of_object_annotation_type(fields[i].type)
        /\ fields[i].name \in Range(fields_to_update)
        /\ NoneObjects \in Range(updated_table[fields[i].name])

\* items.py:339-354, defined for a column without a null cell
MigrateObjects(col) ==
    [i \in DOMAIN col |-> [j \in DOMAIN col[i] |-> MigrateObject(col[i][j])]]

\* items.py:329-354 (Image.from_dict(item_image.to_dict()) keeps an image as it is)
RECURSIVE MigrateFields(_, _, _)
MigrateFields(fields, fields_to_update, updated_table) ==
    IF fields = <<>> THEN updated_table
    ELSE LET f == Head(fields) IN
         MigrateFields(Tail(fields), fields_to_update,
            IF is_list_of_object_annotation_type(f.type) /\ f.name \in Range(fields_to_update)
            THEN [updated_table EXCEPT ![f.name] = MigrateObjects(@)]
            ELSE updated_table)

\* The fields of an annotation struct the model holds; a primitive field
\* (a string, a number, a fixed-size list of numbers) is a StringType one.
AnnotationStruct(withSources) ==
    StructType(<<Field("id", StringType), Field("view_id", StringType),
                 Field("bbox", StringType)>>
               \o (IF withSources THEN <<Field("bbox_source", StringType)>> ELSE <<>>)
               \o <<Field("mask", StructType(<<Field("size", ListType(StringType)),
                                               Field("counts", StringType)>>))>>
               \o (IF withSources THEN <<Field("mask_source", StringType)>> ELSE <<>>)
               \o <<Field("category_name", StringType)>>)

\* The arrow type of a column the model holds that is neither an image nor a
\* list of object annotations.
ArrowType(typeName) ==
    CASE typeName = StringTypeName -> StringType
      [] typeName = LegacyObjectsTypeName -> ListType(AnnotationStruct(TRUE))
      [] typeName = SimilarLegacyTypeName -> ListType(AnnotationStruct(FALSE))

PyColumn(col) == [i \in DOMAIN col |-> Str(col[i])]

\* An ObjectAnnotation, a python object that is no dict, list or str.
Instance == [k |-> "object", v |-> <<>>]

\* An object of a cell of updated_table: to_pydict gives a dict for a struct
\* of a plain list column, with the bbox a flat list; an annotation of the
\* caller, or one the migration has rebuilt, is an ObjectAnnotation.
PyObject(t, obj) ==
    IF obj.bbox.kind # "flat" THEN Instance
    ELSE Struct([n \in FieldNames(t) |->
            CASE n = "bbox" -> Str(obj.bbox.coords)
              [] n = "mask" ->
                    IF obj.mask.kind = "none" THEN Null
                    ELSE Struct([m \in {"size", "counts"} |->
                            IF m = "size"
                            THEN List([i \in DOMAIN obj.mask.size |-> Str(obj.mask.size[i])])
                            ELSE Str(obj.mask.counts)])
              [] OTHER -> Str(obj[n])])

\* A column of annotation lists as python values; a null cell is None.
PyObjectsColumn(t, col) ==
    [i \in DOMAIN col |->
        IF col[i] = NoneObjects THEN Null
        ELSE List([j \in DOMAIN col[i] |-> PyObject(t.e, col[i][j])])]

\* What to_pydict gives back for a struct of an encoded column.
DictObject(x) ==
    [id |-> x.v.id.v, view_id |-> x.v.view_id.v, bbox |-> FlatBBox(x.v.bbox.v),
     mask |-> IF x.v.mask.k = "null" THEN NoMask
              ELSE [kind |-> "rle",
                    size |-> [i \in DOMAIN x.v.mask.v.size.v |-> x.v.mask.v.size.v[i].v],
                    counts |-> x.v.mask.v.counts.v],
     mask_source |-> IF "mask_source" \in DOMAIN x.v THEN x.v.mask_source.v ELSE "",
     bbox_source |-> IF "bbox_source" \in DOMAIN x.v THEN x.v.bbox_source.v ELSE "",
     category_name |-> x.v.category_name.v]

DictObjects(arr) ==
    [i \in DOMAIN arr |->
        IF arr[i].k = "null" THEN NoneObjects
        ELSE [j \in DOMAIN arr[i].v |-> DictObject(arr[i].v[j])]]

\* items.py:359-372, one field
EncodeField(f, col) ==
    IF is_list_of_object_annotation_type(f.type) \/ is_image_type(f.type)
    THEN Converted(col)
    ELSE IF f.type = StringTypeName
    THEN LET arr == convert_field(ArrowType(f.type), PyColumn(col)) IN
         IF arr.ok THEN Converted([i \in DOMAIN arr.arr |-> arr.arr[i].v]) ELSE arr
    ELSE LET arr == convert_field(ArrowType(f.type), PyObjectsColumn(ArrowType(f.type), col)) IN
         IF arr.ok THEN Converted(DictObjects(arr.arr)) ELSE arr

\* items.py:356-377: pa.Table.from_arrays(arrays, schema=schema); the arrays
\* of a table have one length
EncodeTable(schema, updated_table) ==
    LET arrays == [i \in DOMAIN schema |-> EncodeField(schema[i], updated_table[schema[i].name])]
    IN IF \E i \in DOMAIN schema : ~arrays[i].ok THEN [ok |-> FALSE, schema |-> <<>>, arrays |-> <<>>]
       ELSE IF \E i, j \in DOMAIN schema : Len(arrays[i].arr) # Len(arrays[j].arr)
       THEN [ok |-> FALSE, schema |-> <<>>, arrays |-> <<>>]
       ELSE [ok |-> TRUE, schema |-> schema, arrays |-> [i \in DOMAIN schema |-> arrays[i].arr]]

\* items.py:308-372: the table that replaces the file, given the detected schema
UpdatedTable(table, detected, item_id, annotations) ==
    LET item == ItemWithAnnotations(table, item_id, annotations)
        appended == AppendItem(detected.schema, TableWithoutItem(table, item_id), item)
        sorted == SortTable(detected.schema, appended)
    IN IF MigrateFails(detected.schema, detected.fields_to_update, sorted)
       THEN [ok |-> FALSE, schema |-> <<>>, arrays |-> <<>>]
       ELSE EncodeTable(detected.schema,
                        MigrateFields(detected.schema, detected.fields_to_update, sorted))

\* items.py:307
ItemFound(table, item_id) == ItemRows(table, item_id) # {}

NoTable == [schema |-> <<>>, arrays |-> <<>>]

\* items.py:279-372, one file of the loop: pq.read_table raises on a file that
\* is not a complete parquet file. outcome: "error" (an exception leaves the
\* call), "absent" (next file) or "write" (table is what pq.write_table gets).
ProcessShard(file, item_id, annotations) ==
    IF ~file.complete THEN [outcome |-> "error", table |-> NoTable, migrates |-> FALSE]
    ELSE LET table == [schema |-> file.schema, arrays |-> file.arrays]
             detected == DetectLegacy(table.schema)
         IN IF ~detected.ok THEN [outcome |-> "error", table |-> NoTable, migrates |-> FALSE]
            ELSE IF ~ItemFound(table, item_id)
            THEN [outcome |-> "absent", table |-> NoTable, migrates |-> FALSE]
            ELSE LET new == UpdatedTable(table, detected, item_id, annotations) IN
                 IF new.ok
                 THEN [outcome |-> "write",
                       table |-> [schema |-> new.schema, arrays |-> new.arrays],
                       migrates |-> detected.fields_to_update # <<>>]
                 ELSE [outcome |-> "error", table |-> NoTable, migrates |-> FALSE]

-----------------------------------------------------------------------------
(* The dataset on storage and the transactions on it *)

Txs == {1, 2}

\* The files of dataset_dir / "db", in glob order.
ShardNames == << <<"s", "1", "0">>, <<"s", "2">> >>

Shards == DOMAIN ShardNames

\* items.py:274-275: sorted(files, key=lambda x: natural_key(x.name))
ScanOrder == SortedByKey(ShardNames, [k \in Shards |-> k])

ShardIds == << << <<"a", "1", "1">>, <<"b", "1">> >>,
               << <<"a", "1">>, <<"a", "2">>, <<"a", "1", "0">> >> >>

\* The ids a caller asks for: the first of s10, the second of s2, one of no shard.
CallIds == { <<"a", "1", "1">>, <<"a", "2">>, <<"a", "3">> }

\* The ids of two concurrent callers.
ConcIds == { <<"a", "1">>, <<"a", "2">>, <<"a", "1", "1">> }

\* The ids of a caller whose calls may be interrupted.
CrashIds == { <<"a", "2">>, <<"a", "3">> }

ConcLists == { <<AnnMaskOnly>>, <<AnnWithBBox>> }

\* An annotation the importer wrote, in the previous or in the current type.
StoredAnn(legacy) ==
    ObjectAnnotation("o0",
                     IF legacy THEN FlatBBox(<<1, 1, 1, 1>>) ELSE BBox(<<1, 1, 1, 1>>, "xywh", TRUE),
                     from_urle(Urle2), "old_mask", "old_bbox")

InitFile(k, legacy) ==
    LET ids == ShardIds[k] IN
    [name |-> ShardNames[k],
     complete |-> TRUE,
     schema |-> << SchemaField("id", StringTypeName),
                   SchemaField("objects",
                               IF legacy THEN LegacyObjectsTypeName ELSE ObjectsTypeName),
                   SchemaField("split", StringTypeName) >>,
     arrays |-> << ids,
                   [i \in DOMAIN ids |-> IF i < Len(ids) THEN <<StoredAnn(legacy)>> ELSE <<>>],
                   [i \in DOMAIN ids |-> <<"t">>] >>]

NoCall == [id |-> <<>>, anns |-> <<>>, prepared |-> <<>>]

NoConversion == [state |-> "none", type |-> 0, data |-> <<>>, out |-> Failed("")]

\* No registration at hand: the registry holds the names in names.
NoRegistration(names) == [names |-> names, i |-> 0, calls |-> 0, first |-> {}, raised |-> FALSE]

NoBoxCall == [state |-> "none", b |-> NoBBox, height |-> 1, width |-> 1, mask |-> <<>>, out |-> NoBBox]

\* No stats.json yet.
NoStatsFile ==
    [exists |-> FALSE, records |-> <<>>, prior |-> <<>>, written |-> <<>>, loaded |-> <<>>]

\* No run of process_dataset yet, and no output directory.
NoRun == [pc |-> "idle", runs |-> 0, split |-> 0, file |-> 0, processed |-> {},
          out |-> <<>>, json |-> <<>>, done |-> <<>>, computed |-> {}, returned |-> FALSE]

\* No call of load_item_details yet.
NoDetails == [state |-> "none", columns |-> <<>>, out |-> <<>>]

\* The parts of the library that are not in use.
LibIdle(c, r, b, s, e, d) ==
    cv = c /\ reg = r /\ box = b /\ stats = s /\ emb = e /\ details = d

\* A dataset that was always written with the current types.
CurrentFiles == [k \in Shards |-> InitFile(k, FALSE)]

\* No call yet, on a dataset with the given files.
StoreIdle(files) ==
    /\ disk = files
    /\ pc = [p \in Txs |-> "idle"]
    /\ call = [p \in Txs |-> NoCall]
    /\ pos = [p \in Txs |-> 1]
    /\ buf = [p \in Txs |-> NoTable]
    /\ result = [p \in Txs |-> "none"]
    /\ before = [p \in Txs |-> disk]
    /\ written = [p \in Txs |-> <<>>]
    /\ prev = [p \in Txs |-> [repeats |-> FALSE, migrated |-> {}]]
    /\ log = [opened |-> {}, closer |-> [k \in Shards |-> 0], clean |-> [p \in Txs |-> {}],
              migrating |-> [p \in Txs |-> FALSE], migrated |-> {},
              reads |-> [p \in Txs |-> <<>>]]

Init ==
    \E legacy \in [Shards -> BOOLEAN] :
        /\ StoreIdle([k \in Shards |-> InitFile(k, legacy[k])])
        /\ LibIdle(NoConversion, NoRegistration({}), NoBoxCall, NoStatsFile, NoRun, NoDetails)

\* The file the transaction is at.
Shard(p) == ScanOrder[pos[p]]

\* items.py:252-275: the call, the loop over the annotations and the file list
Begin(p, item_id, annotations) ==
    /\ pc[p] = "idle"
    /\ call' = [call EXCEPT ![p] =
                   [id |-> item_id, anns |-> annotations,
                    prepared |-> IF PrepareFails(annotations) THEN <<>>
                                 ELSE PrepareAnnotations(annotations)]]
    /\ prev' = [prev EXCEPT ![p] =
                   [repeats |-> /\ result[p] = "ok"
                                /\ call[p].id = item_id
                                /\ call[p].anns = annotations,
                    migrated |-> log.migrated]]
    /\ before' = [before EXCEPT ![p] = disk]
    /\ written' = [written EXCEPT ![p] = <<>>]
    /\ log' = [log EXCEPT !.clean[p] = {}, !.migrating[p] = FALSE, !.reads[p] = <<>>]
    /\ pos' = [pos EXCEPT ![p] = 1]
    /\ IF PrepareFails(annotations)
       THEN /\ result' = [result EXCEPT ![p] = "error"]
            /\ pc' = pc
       ELSE /\ result' = [result EXCEPT ![p] = "running"]
            /\ pc' = [pc EXCEPT ![p] = "scan"]
    /\ UNCHANGED <<disk, buf, libVars>>

\* A rewrite that opens the file for writing before it builds the table.
ReadShardOpensFirst(p) ==
    /\ pc[p] = "scan"
    /\ pos[p] <= Len(ScanOrder)
    /\ LET k == Shard(p)
           r == ProcessShard(disk[k], call[p].id, call[p].prepared)
       IN /\ log' = [log EXCEPT
                        !.clean[p] = IF k \in log.opened THEN @ ELSE @ \cup {k},
                        !.migrating[p] = @ \/ r.migrates,
                        !.reads[p] = Append(@, k)]
          /\ disk' = IF r.outcome = "error"
                     THEN [disk EXCEPT ![k] =
                              [@ EXCEPT !.complete = FALSE, !.schema = <<>>, !.arrays = <<>>]]
                     ELSE disk
          /\ CASE r.outcome = "error" ->
                    /\ pc' = [pc EXCEPT ![p] = "idle"]
                    /\ result' = [result EXCEPT ![p] = "error"]
                    /\ UNCHANGED <<pos, buf>>
               [] r.outcome = "absent" ->
                    /\ pos' = [pos EXCEPT ![p] = @ + 1]
                    /\ UNCHANGED <<pc, result, buf>>
               [] r.outcome = "write" ->
                    /\ buf' = [buf EXCEPT ![p] = r.table]
                    /\ pc' = [pc EXCEPT ![p] = "open"]
                    /\ UNCHANGED <<pos, result>>
    /\ UNCHANGED <<call, before, written, prev, libVars>>

\* items.py:278-372: one file, up to the call of pq.write_table
ReadShard(p) ==
    /\ pc[p] = "scan"
    /\ pos[p] <= Len(ScanOrder)
    /\ LET k == Shard(p)
           r == ProcessShard(disk[k], call[p].id, call[p].prepared)
       IN /\ log' = [log EXCEPT
                        !.clean[p] = IF k \in log.opened THEN @ ELSE @ \cup {k},
                        !.migrating[p] = @ \/ r.migrates,
                        !.reads[p] = Append(@, k)]
          /\ CASE r.outcome = "error" ->
                    /\ pc' = [pc EXCEPT ![p] = "idle"]
                    /\ result' = [result EXCEPT ![p] = "error"]
                    /\ UNCHANGED <<pos, buf>>
               [] r.outcome = "absent" ->
                    /\ pos' = [pos EXCEPT ![p] = @ + 1]
                    /\ UNCHANGED <<pc, result, buf>>
               [] r.outcome = "write" ->
                    /\ buf' = [buf EXCEPT ![p] = r.table]
                    /\ pc' = [pc EXCEPT ![p] = "open"]
                    /\ UNCHANGED <<pos, result>>
    /\ UNCHANGED <<disk, call, before, written, prev, libVars>>

\* items.py:375-378, pq.write_table(table, file): the file is opened for
\* writing, which empties it ...
WriteOpen(p) ==
    /\ pc[p] = "open"
    /\ disk' = [disk EXCEPT ![Shard(p)] =
                   [@ EXCEPT !.complete = FALSE, !.schema = <<>>, !.arrays = <<>>]]
    /\ log' = [log EXCEPT !.opened = @ \cup {Shard(p)}]
    /\ pc' = [pc EXCEPT ![p] = "close"]
    /\ UNCHANGED <<call, pos, buf, result, before, written, prev, libVars>>

\* A write that lands in the first file of the list, whatever file was read.
WriteCloseFirstFile(p) ==
    /\ pc[p] = "close"
    /\ disk' = [disk EXCEPT ![ScanOrder[1]] =
                   [@ EXCEPT !.complete = TRUE, !.schema = buf[p].schema,
                             !.arrays = buf[p].arrays]]
    /\ written' = [written EXCEPT ![p] = Append(@, ScanOrder[1])]
    /\ log' = [log EXCEPT !.closer[ScanOrder[1]] = p,
                          !.migrated = IF log.migrating[p] THEN @ \cup {ScanOrder[1]} ELSE @]
    /\ pos' = [pos EXCEPT ![p] = @ + 1]
    /\ pc' = [pc EXCEPT ![p] = "scan"]
    /\ UNCHANGED <<call, buf, result, before, prev, libVars>>

\* ... and holds the table once the writer has closed it; the loop goes on
\* with the next file.
WriteClose(p) ==
    /\ pc[p] = "close"
    /\ disk' = [disk EXCEPT ![Shard(p)] =
                   [@ EXCEPT !.complete = TRUE, !.schema = buf[p].schema,
                             !.arrays = buf[p].arrays]]
    /\ written' = [written EXCEPT ![p] = Append(@, Shard(p))]
    /\ log' = [log EXCEPT !.closer[Shard(p)] = p,
                          !.migrated = IF log.migrating[p] THEN @ \cup {Shard(p)} ELSE @]
    /\ pos' = [pos EXCEPT ![p] = @ + 1]
    /\ pc' = [pc EXCEPT ![p] = "scan"]
    /\ UNCHANGED <<call, buf, result, before, prev, libVars>>

\* items.py:278: the loop has no file left, the call returns
Return(p) ==
    /\ pc[p] = "scan"
    /\ pos[p] > Len(ScanOrder)
    /\ pc' = [pc EXCEPT ![p] = "idle"]
    /\ result' = [result EXCEPT ![p] = "ok"]
    /\ UNCHANGED <<disk, call, pos, buf, before, written, prev, log, libVars>>

\* The process is killed, or the write raises (no space left), during a call.
Interrupt(p) ==
    /\ pc[p] \in {"scan", "open", "close"}
    /\ pc' = [pc EXCEPT ![p] = "idle"]
    /\ result' = [result EXCEPT ![p] = "killed"]
    /\ UNCHANGED <<disk, call, pos, buf, before, written, prev, log, libVars>>

Step(p) == ReadShard(p) \/ WriteOpen(p) \/ WriteClose(p) \/ Return(p)

\* One caller, one call after the other.
Next ==
    \/ \E item_id \in CallIds, annotations \in AnnLists : Begin(1, item_id, annotations)
    \/ Step(1)

Spec == Init /\ [][Next]_vars

\* One caller whose calls may be interrupted.
NextCrash ==
    \/ \E item_id \in CrashIds, annotations \in ConcLists : Begin(1, item_id, annotations)
    \/ Step(1)
    \/ Interrupt(1)

SpecCrash == Init /\ [][NextCrash]_vars

\* Two callers, one call each, in any interleaving.
NextConc ==
    \E p \in Txs :
        \/ /\ result[p] = "none"
           /\ \E item_id \in ConcIds, annotations \in ConcLists : Begin(p, item_id, annotations)
        \/ Step(p)

SpecConc == Init /\ [][NextConc]_vars

\* A shard in the previous types whose last row has a null objects cell.
FileWithNullObjects(k) ==
    LET file == InitFile(k, TRUE) IN
    [file EXCEPT !.arrays[2][Len(ShardIds[k])] = NoneObjects]

\* Datasets written with the previous types, with and without null cells.
InitLegacy ==
    \E files \in [Shards -> BOOLEAN] :
        /\ StoreIdle([k \in Shards |->
                         IF files[k] THEN FileWithNullObjects(k) ELSE InitFile(k, TRUE)])
        /\ LibIdle(NoConversion, NoRegistration({}), NoBoxCall, NoStatsFile, NoRun, NoDetails)

\* One caller, one call after the other, on such a dataset.
NextLegacy ==
    \/ \E item_id \in CallIds, annotations \in ConcLists : Begin(1, item_id, annotations)
    \/ Step(1)

SpecLegacy == InitLegacy /\ [][NextLegacy]_vars

-----------------------------------------------------------------------------
(* convert_field on its own: every column of every type below *)

\* The longest list, and the most rows of a column.
MaxLen == 2

SeqsUpTo(S, n) == UNION {[1..m -> S] : m \in 0..n}

ConvertTypes ==
    << StringType,
       ListType(StringType),
       StructType(<<Field("a", StringType), Field("b", StringType)>>),
       ListType(StructType(<<Field("a", StringType)>>)),
       StructType(<<Field("a", ListType(StringType))>>),
       ExtensionType(ListType(StringType)) >>

\* The python values that match a type.
RECURSIVE ValuesOf(_)
ValuesOf(t) ==
    CASE t.k = "string" -> {Null, Str(<<"x">>), Str(<<"y">>)}
      [] t.k = "list" -> {Null} \cup {List(xs) : xs \in SeqsUpTo(ValuesOf(t.e), MaxLen)}
      [] t.k = "struct" ->
            LET all == UNION {ValuesOf(t.f[j].t) : j \in DOMAIN t.f} IN
            {Null} \cup
            {Struct(f) : f \in UNION {{g \in [D -> all] : Matches(t, Struct(g))} :
                                       D \in SUBSET FieldNames(t)}}
      [] t.k = "ext" -> ValuesOf(t.s)

InitConvert ==
    /\ StoreIdle(CurrentFiles)
    /\ \E i \in DOMAIN ConvertTypes :
          \E data \in SeqsUpTo(ValuesOf(ConvertTypes[i]), MaxLen) :
              LibIdle([state |-> "input", type |-> i, data |-> data, out |-> Failed("")],
                      NoRegistration({}), NoBoxCall, NoStatsFile, NoRun, NoDetails)

\* A caller converts a column.
ConvertColumn ==
    /\ cv.state = "input"
    /\ cv' = [cv EXCEPT !.state = "done",
                        !.out = convert_field(ConvertTypes[cv.type], cv.data)]
    /\ UNCHANGED <<storeVars, details, reg, box, stats, emb>>

SpecConvert == InitConvert /\ [][ConvertColumn]_vars

-----------------------------------------------------------------------------
(* convert_field on columns whose values need not have the declared shape *)

\* The most rows of such a column.
MaxRows == 2

\* Values of every shape: a str, lists and dicts of them, one level deeper.
ShapeValues ==
    { Null, Str(<<"x">>),
      List(<<>>), List(<<Str(<<"x">>)>>), List(<<List(<<Str(<<"x">>)>>)>>),
      Struct([n \in {"a"} |-> Str(<<"x">>)]),
      Struct([n \in {"a"} |-> List(<<Str(<<"x">>)>>)]),
      Struct([n \in {"a", "b"} |-> IF n = "a" THEN Str(<<"x">>) ELSE List(<<>>)]),
      List(<<Struct([n \in {"a"} |-> Str(<<"x">>)])>>),
      List(<<Struct([n \in {"a"} |-> List(<<>>)])>>) }

InitShapes ==
    /\ StoreIdle(CurrentFiles)
    /\ \E i \in DOMAIN ConvertTypes :
          \E data \in SeqsUpTo(ShapeValues, MaxRows) :
              LibIdle([state |-> "input", type |-> i, data |-> data, out |-> Failed("")],
                      NoRegistration({}), NoBoxCall, NoStatsFile, NoRun, NoDetails)

\* items.py:356-378: the caller has the array convert_field returned and writes
\* the table of its arrays; an exception of convert_field leaves the caller
\* before it gets there.
StoreColumn ==
    /\ cv.state = "done"
    /\ cv.out.ok
    /\ cv' = [cv EXCEPT !.state = "stored"]
    /\ UNCHANGED <<storeVars, details, reg, box, stats, emb>>

NextShapes == ConvertColumn \/ StoreColumn

SpecShapes == InitShapes /\ [][NextShapes]_vars

-----------------------------------------------------------------------------
(* register_extension_types: src/pixano/core/arrow_types/__init__.py:116-134, *)
(* called when the package is imported (line 150) and by whoever calls it     *)
(* again. The registry is pyarrow's, one per process: it holds the extension  *)
(* types by name.                                                             *)

\* pa_types, __init__.py:119-126
pa_types ==
    <<"BBoxType", "PoseType", "CompressedRLEType", "EmbeddingType", "ImageType",
      "ObjectAnnotationType">>

\* The calls of register_extension_types in one process.
MaxRegCalls == 3

\* pa.register_extension_type(t()): ArrowKeyError for a name the registry has
register_extension_type(names, t) ==
    IF t \in names THEN [ok |-> FALSE, names |-> names]
    ELSE [ok |-> TRUE, names |-> names \cup {t}]

\* Types registered before the package is imported (another module did).
InitRegister ==
    /\ StoreIdle(CurrentFiles)
    /\ \E names \in SUBSET Range(pa_types) :
          LibIdle(NoConversion, NoRegistration(names), NoBoxCall, NoStatsFile, NoRun, NoDetails)

\* __init__.py:116-128: the call, before the first type
RegisterBegin ==
    /\ reg.i = 0
    /\ ~reg.raised
    /\ reg.calls < MaxRegCalls
    /\ reg' = [reg EXCEPT !.i = 1, !.calls = @ + 1]
    /\ UNCHANGED <<storeVars, details, cv, box, stats, emb>>

\* The loop without its except clause: the error leaves the call.
RegisterTypeUncaught ==
    /\ reg.i \in DOMAIN pa_types
    /\ LET r == register_extension_type(reg.names, pa_types[reg.i])
           last == reg.i = Len(pa_types)
       IN reg' = IF ~r.ok THEN [reg EXCEPT !.i = 0, !.raised = TRUE]
                 ELSE [reg EXCEPT !.names = r.names,
                                  !.i = IF last THEN 0 ELSE @ + 1,
                                  !.first = IF last /\ reg.calls = 1 THEN r.names ELSE @]
    /\ UNCHANGED <<storeVars, details, cv, box, stats, emb>>

\* __init__.py:128-134, one type of the loop: try to register it, pass on
\* ArrowKeyError; after the last type the call returns
RegisterType ==
    /\ reg.i \in DOMAIN pa_types
    /\ LET r == register_extension_type(reg.names, pa_types[reg.i])
           last == reg.i = Len(pa_types)
       IN reg' = [reg EXCEPT !.names = r.names,
                             !.i = IF last THEN 0 ELSE @ + 1,
                             !.first = IF last /\ reg.calls = 1 THEN r.names ELSE @]
    /\ UNCHANGED <<storeVars, details, cv, box, stats, emb>>

NextRegister == RegisterBegin \/ RegisterType

SpecRegister == InitRegister /\ [][NextRegister]_vars

-----------------------------------------------------------------------------
(* The BBox operations: src/pixano/core/bbox.py:69-180. A coordinate is a    *)
(* fraction [n, d] in lowest terms, so that a division by the image size and *)
(* the multiplication that undoes it are exact. The coordinate helpers are   *)
(* those of pixano.utils.                                                    *)

Abs(n) == IF n < 0 THEN -n ELSE n

RECURSIVE Gcd(_, _)
Gcd(a, b) == IF b = 0 THEN a ELSE Gcd(b, a % b)

\* n / d, d > 0
Frac(n, d) ==
    LET g == Gcd(Abs(n), d) IN [n |-> n \div g, d |-> d \div g]

FAdd(a, b) == Frac(a.n * b.d + b.n * a.d, a.d * b.d)

FSub(a, b) == Frac(a.n * b.d - b.n * a.d, a.d * b.d)

FDiv(a, k) == Frac(a.n, a.d * k)

FMul(a, k) == Frac(a.n * k, a.d)

\* pixano.utils.xywh_to_xyxy: [x, y, x + w, y + h]
xywh_to_xyxy(c) == <<c[1], c[2], FAdd(c[1], c[3]), FAdd(c[2], c[4])>>

\* pixano.utils.xyxy_to_xywh: [x1, y1, x2 - x1, y2 - y1]
xyxy_to_xywh(c) == <<c[1], c[2], FSub(c[3], c[1]), FSub(c[4], c[2])>>

\* pixano.utils.normalize_coords: x and width by the image width, y and height
\* by the image height
normalize_coords(c, height, width) ==
    <<FDiv(c[1], width), FDiv(c[2], height), FDiv(c[3], width), FDiv(c[4], height)>>

\* pixano.utils.denormalize_coords
denormalize_coords(c, height, width) ==
    <<FMul(c[1], width), FMul(c[2], height), FMul(c[3], width), FMul(c[4], height)>>

\* bbox.py:69-77
xyxy_coords(b) == IF b.format = "xyxy" THEN b.coords ELSE xywh_to_xyxy(b.coords)

\* bbox.py:79-87
xywh_coords(b) == IF b.format = "xywh" THEN b.coords ELSE xyxy_to_xywh(b.coords)

\* bbox.py:99-106
to_xyxy(b) == BBox(xyxy_coords(b), "xyxy", b.is_normalized)

\* bbox.py:108-115
to_xywh(b) == BBox(xywh_coords(b), "xywh", b.is_normalized)

\* bbox.py:117-128
normalize(b, height, width) ==
    BBox(normalize_coords(b.coords, height, width), b.format, TRUE)

\* bbox.py:130-141
denormalize(b, height, width) ==
    BBox(denormalize_coords(b.coords, height, width), b.format, FALSE)

\* The largest image height and width.
MaxDim == 2

\* The side of a square mask.
MaskSide == 2

\* Boxes with a corner at 0 or 1/2 and two more coordinates of 1/2 or 2, in
\* either format, normalized or not, predicted (with a confidence) or not.
Boxes ==
    { BBoxInit(<<x, y, w, h>>, format, is_normalized, confidence) :
        x \in {Frac(0, 1), Frac(1, 2)}, y \in {Frac(0, 1), Frac(1, 2)},
        w \in {Frac(1, 2), Frac(2, 1)}, h \in {Frac(1, 2), Frac(2, 1)},
        format \in {"xywh", "xyxy"}, is_normalized \in BOOLEAN,
        confidence \in {NoConfidence, Confidence(90)} }

\* The masks with a foreground pixel.
Masks ==
    { m \in [1..MaskSide -> [1..MaskSide -> {0, 1}]] :
        \E r, c \in 1..MaskSide : m[r][c] = 1 }

InitBBox ==
    /\ StoreIdle(CurrentFiles)
    /\ \/ \E b \in Boxes, height \in 1..MaxDim, width \in 1..MaxDim :
             LibIdle(NoConversion, NoRegistration({}),
                     [NoBoxCall EXCEPT !.state = "box", !.b = b,
                                       !.height = height, !.width = width],
                     NoStatsFile, NoRun, NoDetails)
       \/ \E mask \in Masks :
             LibIdle(NoConversion, NoRegistration({}),
                     [NoBoxCall EXCEPT !.state = "mask", !.mask = mask],
                     NoStatsFile, NoRun, NoDetails)

\* b.to_xyxy().to_xywh()
ConvertFormatAndBack ==
    /\ box.state = "box"
    /\ box' = [box EXCEPT !.state = "format", !.out = to_xywh(to_xyxy(box.b))]
    /\ UNCHANGED <<storeVars, details, cv, reg, stats, emb>>

\* b.normalize(height, width).denormalize(height, width)
NormalizeAndBack ==
    /\ box.state = "box"
    /\ box' = [box EXCEPT !.state = "normalize",
                          !.out = denormalize(normalize(box.b, box.height, box.width),
                                              box.height, box.width)]
    /\ UNCHANGED <<storeVars, details, cv, reg, stats, emb>>

\* BBox.from_mask(mask)
FromMask ==
    /\ box.state = "mask"
    /\ box' = [box EXCEPT !.state = "from_mask", !.out = BBoxFromMask(box.mask)]
    /\ UNCHANGED <<storeVars, details, cv, reg, stats, emb>>

NextBBox == ConvertFormatAndBack \/ NormalizeAndBack \/ FromMask

SpecBBox == InitBBox /\ [][NextBBox]_vars

-----------------------------------------------------------------------------
(* DatasetStat.to_json: src/pixano/data/dataset/dataset_stat.py:52-69. The   *)
(* stats side-file is a JSON array of records; stats.records is the array,   *)
(* stats.written the stats written so far and stats.prior the array before   *)
(* the last call (history). stats.loaded is what from_json returned for the  *)
(* file as it is now, empty once the file was written again.                 *)

\* DatasetStat(name, type, histogram, range): dataset_stat.py:31-34
DatasetStat(name, type, histogram, range) ==
    [name |-> name, type |-> type, histogram |-> histogram, range |-> range]

\* The stats a caller writes: a numerical one has a range, a categorical one
\* has none.
Stats ==
    { DatasetStat(name, "numerical", "h1", "r1") : name \in {"a", "b", "c"} }
    \cup { DatasetStat(name, "categorical", "h2", "None") : name \in {"a", "b", "c"} }

\* The calls of to_json on one file.
MaxStatCalls == 4

\* dataset_stat.py:66: the record of a stat in the file
StatRecord(stat) == [name |-> stat.name, type |-> stat.type, histogram |-> stat.histogram]

\* The records kept whatever their name.
KeepAll(json_stats, name) == json_stats

\* dataset_stat.py:65: [stat for stat in json_stats if stat["name"] != self.name]
RECURSIVE WithoutName(_, _)
WithoutName(json_stats, name) ==
    IF json_stats = <<>> THEN <<>>
    ELSE IF Head(json_stats).name # name
         THEN <<Head(json_stats)>> \o WithoutName(Tail(json_stats), name)
         ELSE WithoutName(Tail(json_stats), name)

InitStats ==
    /\ StoreIdle(CurrentFiles)
    /\ LibIdle(NoConversion, NoRegistration({}), NoBoxCall, NoStatsFile, NoRun, NoDetails)

\* dataset_stat.py:52-69: read the file, or take [] when there is none, drop
\* the record of the name, append the new one, write the file
to_json(stat) ==
    /\ Len(stats.written) < MaxStatCalls
    /\ LET json_stats == IF stats.exists THEN stats.records ELSE <<>> IN
       stats' = [exists |-> TRUE,
                 records |-> Append(WithoutName(json_stats, stat.name), StatRecord(stat)),
                 prior |-> json_stats,
                 written |-> Append(stats.written, stat),
                 loaded |-> <<>>]
    /\ UNCHANGED <<storeVars, details, cv, reg, box, emb>>

\* DatasetStat.model_validate(record): a field the record lacks gets its
\* default, range: Optional[...] = None. dataset_stat.py:31-34,50
model_validate(record) ==
    DatasetStat(record.name, record.type, record.histogram,
                IF "range" \in DOMAIN record THEN record.range ELSE "None")

\* dataset_stat.py:36-50: the stats of the records of the file (open raises
\* when there is no file)
from_json ==
    /\ stats.exists
    /\ stats.loaded = <<>>
    /\ stats' = [stats EXCEPT
                    !.loaded = [i \in DOMAIN stats.records |-> model_validate(stats.records[i])]]
    /\ UNCHANGED <<storeVars, details, cv, reg, box, emb>>

NextStats ==
    \/ \E stat \in Stats : to_json(stat)
    \/ from_json

SpecStats == InitStats /\ [][NextStats]_vars

-----------------------------------------------------------------------------
(* OnlineModel.process_dataset: src/pixano/inference/online_model.py:89-181. *)
(* emb.out is the output directory: for each input file of each split, the   *)
(* output file of its name, absent, partial (opened and not closed) or       *)
(* complete, and the run that wrote it. emb.json is embed.json. emb.done and *)
(* emb.computed are history: the run that completed a file, and the files    *)
(* each run has computed; emb.returned tells that the last run returned.     *)

\* The splits of input_dir / "db" and the names of the files of each, sorted.
InputFiles == << <<"t0", "t1">>, <<"v0", "v1">> >>

\* An input file, and the output file of its name: <<split, file>>.
EmbKeys == {<<s, f>> : s \in DOMAIN InputFiles, f \in 1..2}

\* The runs of process_dataset on one dataset.
MaxRuns == 3

NoOutput == [status |-> "absent", run |-> 0]

InitEmbed ==
    /\ StoreIdle(CurrentFiles)
    /\ LibIdle(NoConversion, NoRegistration({}), NoBoxCall, NoStatsFile,
               [NoRun EXCEPT !.out = [k \in EmbKeys |-> NoOutput],
                             !.done = [k \in EmbKeys |-> 0]],
               NoDetails)

\* online_model.py:140: the names of the parquet files the output directory
\* of the split has, whatever their state
ProcessedNames(out, split) ==
    {InputFiles[split][f] : f \in {g \in 1..Len(InputFiles[split]) :
                                      out[<<split, g>>].status # "absent"}}

\* A run that takes no file for processed.
NeverProcessed(name, processed) == FALSE

\* online_model.py:145: file.name in processed
IsProcessed(name, processed) == name \in processed

\* The file the run is at.
EmbKey == <<emb.split, emb.file>>

\* online_model.py:89-131: the call, up to the loop on the splits
StartRun ==
    /\ emb.pc = "idle"
    /\ emb.runs < MaxRuns
    /\ emb' = [emb EXCEPT !.pc = "split", !.runs = @ + 1, !.split = 1, !.file = 0,
                          !.returned = FALSE]
    /\ UNCHANGED <<storeVars, details, cv, reg, box, stats>>

\* online_model.py:131-140: one split: its files, its folder, what it has
ListSplit ==
    /\ emb.pc = "split"
    /\ emb.split <= Len(InputFiles)
    /\ emb' = [emb EXCEPT !.pc = "file", !.file = 1,
                          !.processed = ProcessedNames(emb.out, emb.split)]
    /\ UNCHANGED <<storeVars, details, cv, reg, box, stats>>

\* online_model.py:143-145: a file that is in processed is passed
SkipFile ==
    /\ emb.pc = "file"
    /\ emb.file <= Len(InputFiles[emb.split])
    /\ IsProcessed(InputFiles[emb.split][emb.file], emb.processed)
    /\ emb' = [emb EXCEPT !.file = @ + 1]
    /\ UNCHANGED <<storeVars, details, cv, reg, box, stats>>

\* online_model.py:145-163: a file that is not: its table, its batches, the
\* embeddings of each
ComputeFile ==
    /\ emb.pc = "file"
    /\ emb.file <= Len(InputFiles[emb.split])
    /\ ~IsProcessed(InputFiles[emb.split][emb.file], emb.processed)
    /\ emb' = [emb EXCEPT !.pc = "open",
                          !.computed = @ \cup {<<emb.runs, EmbKey>>}]
    /\ UNCHANGED <<storeVars, details, cv, reg, box, stats>>

\* online_model.py:166-170, pq.write_table(table, split_dir / file.name): the
\* file is created, or emptied, ...
OpenOutput ==
    /\ emb.pc = "open"
    /\ emb' = [emb EXCEPT !.pc = "close",
                          !.out[EmbKey] = [status |-> "partial", run |-> emb.runs]]
    /\ UNCHANGED <<storeVars, details, cv, reg, box, stats>>

\* ... and is complete once the writer has closed it
CloseOutput ==
    /\ emb.pc = "close"
    /\ emb' = [emb EXCEPT !.pc = "json",
                          !.out[EmbKey] = [status |-> "complete", run |-> emb.runs],
                          !.done[EmbKey] = IF @ = 0 THEN emb.runs ELSE @]
    /\ UNCHANGED <<storeVars, details, cv, reg, box, stats>>

\* online_model.py:172-179: save_json writes embed.json; on to the next file
SaveJson ==
    /\ emb.pc = "json"
    /\ emb' = [emb EXCEPT !.pc = "file", !.json = EmbKey, !.file = @ + 1]
    /\ UNCHANGED <<storeVars, details, cv, reg, box, stats>>

\* online_model.py:143: no file left in the split, on to the next split
NextSplit ==
    /\ emb.pc = "file"
    /\ emb.file > Len(InputFiles[emb.split])
    /\ emb' = [emb EXCEPT !.pc = "split", !.split = @ + 1]
    /\ UNCHANGED <<storeVars, details, cv, reg, box, stats>>

\* online_model.py:181: no split left, the call returns
ReturnRun ==
    /\ emb.pc = "split"
    /\ emb.split > Len(InputFiles)
    /\ emb' = [emb EXCEPT !.pc = "idle", !.returned = TRUE]
    /\ UNCHANGED <<storeVars, details, cv, reg, box, stats>>

\* The run ends where it is: process_batch or the write raises, or the
\* process is killed.
FailRun ==
    /\ emb.pc \in {"split", "file", "open", "close", "json"}
    /\ emb' = [emb EXCEPT !.pc = "idle"]
    /\ UNCHANGED <<storeVars, details, cv, reg, box, stats>>

NextEmbed ==
    \/ StartRun \/ ListSplit \/ SkipFile \/ ComputeFile \/ OpenOutput
    \/ CloseOutput \/ SaveJson \/ NextSplit \/ ReturnRun \/ FailRun

SpecEmbed == InitEmbed /\ [][NextEmbed]_vars

-----------------------------------------------------------------------------
(* load_item_details: src/pixano/api/items.py:126-228. details.columns are   *)
(* the annotation lists of the item, the one of the dataset and the one of   *)
(* an inference dataset, in the current ObjectAnnotation type; details.out   *)
(* is item_details["itemObjects"], a dict of dicts of lists: a function      *)
(* from the sources to functions from the views to the lists of entries. A   *)
(* source that is None or empty is the string "".                            *)

\* The image fields of the schema of the dataset, in its order.
Views == <<"image", "depth">>

\* The views an object may name; the dataset has no image field "lidar".
ViewIds == {"image", "depth", "lidar"}

\* The most objects of an item.
MaxObjects == 2

ObjectIds == <<"o1", "o2", "o3", "o4">>

\* What tells two objects of an item apart for load_item_details.
ObjectShapes ==
    [mask_source : {"", "sam"}, bbox_source : {"", "det"}, view_id : ViewIds]

\* The i-th object of an item.
DetailObject(i, shape) ==
    [ObjectAnnotation(ObjectIds[i], GivenBBox, from_urle(Urle1),
                      shape.mask_source, shape.bbox_source)
        EXCEPT !.view_id = shape.view_id]

InitDetails ==
    /\ StoreIdle(CurrentFiles)
    /\ \E n \in 0..MaxObjects :
          \E shapes \in [1..n -> ObjectShapes], own \in 0..n :
              LET objects == [i \in 1..n |-> DetailObject(i, shapes[i])] IN
              LibIdle(NoConversion, NoRegistration({}), NoBoxCall, NoStatsFile, NoRun,
                      [NoDetails EXCEPT
                          !.state = "item",
                          !.columns = <<SubSeq(objects, 1, own), SubSeq(objects, own + 1, n)>>])

\* A source taken from the bounding box first.
DisplayedSourceOfBBoxFirst(obj) ==
    IF obj.bbox_source # "" THEN obj.bbox_source
    ELSE IF obj.mask_source # "" THEN obj.mask_source
    ELSE "Ground truth"

\* items.py:211: obj.mask_source or obj.bbox_source or "Ground truth"
DisplayedSource(obj) ==
    IF obj.mask_source # "" THEN obj.mask_source
    ELSE IF obj.bbox_source # "" THEN obj.bbox_source
    ELSE "Ground truth"

\* items.py:196-198,221-222: the entry of an object
DetailEntry(obj) ==
    [id |-> obj.id, mask |-> IF obj.mask.kind = "none" THEN NoMask ELSE to_urle(obj.mask)]

\* items.py:219: item_details["itemObjects"][source][view].append(entry), on
\* defaultdicts
AppendEntry(itemObjects, source, view, entry) ==
    LET views == IF source \in DOMAIN itemObjects THEN itemObjects[source] ELSE <<>>
        entries == IF view \in DOMAIN views THEN views[view] ELSE <<>>
        newViews == [v \in DOMAIN views \cup {view} |->
                        IF v = view THEN Append(entries, entry) ELSE views[v]]
    IN [s \in DOMAIN itemObjects \cup {source} |->
           IF s = source THEN newViews ELSE itemObjects[s]]

\* items.py:186-226, for one view
RECURSIVE AddObjects(_, _, _)
AddObjects(objects, view, itemObjects) ==
    IF objects = <<>> THEN itemObjects
    ELSE LET obj == Head(objects) IN
         AddObjects(Tail(objects), view,
                    IF obj.view_id = view
                    THEN AppendEntry(itemObjects, DisplayedSource(obj), view, DetailEntry(obj))
                    ELSE itemObjects)

\* items.py:178-226
RECURSIVE AddViews(_, _, _)
AddViews(views, objects, itemObjects) ==
    IF views = <<>> THEN itemObjects
    ELSE AddViews(Tail(views), objects, AddObjects(objects, Head(views), itemObjects))

\* items.py:126-228: the objects of the item and of its inference item
\* (150-165), then the entries of each view
load_item_details ==
    /\ details.state = "item"
    /\ details' = [details EXCEPT
                      !.state = "loaded",
                      !.out = AddViews(Views, Flatten(details.columns), <<>>)]
    /\ UNCHANGED <<storeVars, cv, reg, box, stats, emb>>

SpecDetails == InitDetails /\ [][load_item_details]_vars

-----------------------------------------------------------------------------
(* save_item_annotations on datasets of other schemas: a view column, the    *)
(* "objects" column or none, a second annotation-list column "preds" or      *)
(* none, and a feature column, each row with values of its own.              *)

\* The type of an annotation-list column of each kind.
ObjectsTypeOf(kind) ==
    CASE kind = "current" -> ObjectsTypeName
      [] kind = "legacy" -> LegacyObjectsTypeName
      [] kind = "similar" -> SimilarLegacyTypeName

\* An annotation the importer wrote in a column of a kind; one of the similar
\* type has no sources.
ImportedAnn(kind, id) ==
    [StoredAnn(kind # "current") EXCEPT
        !.id = id,
        !.mask_source = IF kind = "similar" THEN "" ELSE @,
        !.bbox_source = IF kind = "similar" THEN "" ELSE @]

PredIds == <<"p1", "p2", "p3">>

\* The schemas: the type of the view column, the kinds of the two
\* annotation-list columns, and whether the rows of "preds" have annotations.
ColumnLayouts ==
    { [image |-> "current", objects |-> "current", preds |-> "current", filled |-> TRUE],
      [image |-> "current", objects |-> "none", preds |-> "current", filled |-> TRUE],
      [image |-> "legacy", objects |-> "legacy", preds |-> "none", filled |-> FALSE],
      [image |-> "legacy", objects |-> "current", preds |-> "current", filled |-> TRUE],
      [image |-> "current", objects |-> "current", preds |-> "legacy", filled |-> FALSE],
      [image |-> "current", objects |-> "current", preds |-> "legacy", filled |-> TRUE],
      [image |-> "current", objects |-> "none", preds |-> "legacy", filled |-> TRUE],
      [image |-> "current", objects |-> "similar", preds |-> "none", filled |-> FALSE],
      [image |-> "current", objects |-> "current", preds |-> "similar", filled |-> TRUE] }

LayoutFile(k, layout) ==
    LET ids == ShardIds[k]
        column(name, type, cells) == [name |-> name, type |-> type, cells |-> cells]
        columns ==
            << column("id", StringTypeName, ids),
               column("image",
                      IF layout.image = "legacy" THEN LegacyImageTypeName ELSE ImageTypeName,
                      [i \in DOMAIN ids |-> <<"u">> \o ids[i]]) >>
            \o (IF layout.objects = "none" THEN <<>>
                ELSE << column("objects", ObjectsTypeOf(layout.objects),
                               [i \in DOMAIN ids |->
                                   IF i < Len(ids)
                                   THEN <<ImportedAnn(layout.objects, "o0")>>
                                   ELSE <<>>]) >>)
            \o (IF layout.preds = "none" THEN <<>>
                ELSE << column("preds", ObjectsTypeOf(layout.preds),
                               [i \in DOMAIN ids |->
                                   IF layout.filled
                                   THEN <<ImportedAnn(layout.preds, PredIds[i])>>
                                   ELSE <<>>]) >>)
            \o << column("label", StringTypeName, [i \in DOMAIN ids |-> <<"l">> \o ids[i]]) >>
    IN [name |-> ShardNames[k],
        complete |-> TRUE,
        schema |-> [i \in DOMAIN columns |-> SchemaField(columns[i].name, columns[i].type)],
        arrays |-> [i \in DOMAIN columns |-> columns[i].cells]]

InitColumns ==
    \E layout \in ColumnLayouts :
        /\ StoreIdle([k \in Shards |-> LayoutFile(k, layout)])
        /\ LibIdle(NoConversion, NoRegistration({}), NoBoxCall, NoStatsFile, NoRun, NoDetails)

\* One caller, one call after the other, with a list of annotations or none.
NextColumns ==
    \/ \E item_id \in CallIds, annotations \in ConcLists \cup {<<>>} :
          Begin(1, item_id, annotations)
    \/ Step(1)

SpecColumns == InitColumns /\ [][NextColumns]_vars

-----------------------------------------------------------------------------
(* Properties *)

\* The call of transaction p has returned or raised.
Finished(p) == pc[p] = "idle" /\ result[p] \in {"ok", "error"}

Returned(p) == pc[p] = "idle" /\ result[p] = "ok"

IdsOf(file) == Column(file, "id")

\* The shards of dataset d that hold the item.
HoldingShards(d, item_id) ==
    {k \in Shards : d[k].complete /\ item_id \in Range(IdsOf(d[k]))}

ObjectsOf(file, item_id) ==
    Column(file, "objects")[CHOOSE i \in DOMAIN IdsOf(file) : IdsOf(file)[i] = item_id]

AnnIds(objects) == [i \in DOMAIN objects |-> objects[i].id]

\* C1: after a call that returned and found its item, the id column of the
\* shard that held the item is in natural-key order and the shard has as many
\* rows as before the call; this holds after every call of every sequence.
ShardSortedAndSameSize ==
    Returned(1) =>
        \A k \in HoldingShards(before[1], call[1].id) :
            /\ disk[k].complete
            /\ NaturallySorted(IdsOf(disk[k]))
            /\ Len(IdsOf(disk[k])) = Len(IdsOf(before[1][k]))
            /\ \A i \in DOMAIN disk[k].arrays : Len(disk[k].arrays[i]) = Len(IdsOf(disk[k]))

\* The second row of its shard was updated: appended last, it had to be moved.
ShardSortedAndSameSizeWitness ==
    /\ Returned(1)
    /\ call[1].id = <<"a", "2">>
    /\ written[1] = <<2>>
    /\ ObjectsOf(disk[2], call[1].id) # ObjectsOf(before[1][2], call[1].id)

\* C2: a call that returns has written exactly one shard file, the one that
\* held the item, when a shard held it, and none when no shard did; every
\* other file is as it was before the call.
ExactlyOneShardRewritten ==
    Returned(1) =>
        LET holders == HoldingShards(before[1], call[1].id) IN
        /\ holders # {} => Len(written[1]) = 1 /\ written[1][1] \in holders
        /\ holders = {} => written[1] = <<>>
        /\ \A k \in Shards \ holders : disk[k] = before[1][k]

\* The item of the second file of the list was updated.
ExactlyOneShardRewrittenWitness ==
    /\ Returned(1)
    /\ call[1].id = <<"a", "1", "1">>
    /\ written[1] = <<1>>
    /\ disk[1] # before[1][1]

\* C3: a call for an id that no shard holds returns without an error, whatever
\* the annotation list, and writes or changes no shard file.
AbsentItemIsSilentNoOp ==
    (Finished(1) /\ HoldingShards(before[1], call[1].id) = {}) =>
        /\ result[1] = "ok"
        /\ written[1] = <<>>
        /\ disk = before[1]

\* C4: at every point of an update, also of one that is interrupted while the
\* shard is written, every shard file holds its complete old content or the
\* complete new table.
ShardRewriteIsAtomic ==
    \A k \in Shards :
        \/ disk[k] = before[1][k]
        \/ /\ disk[k].complete
           /\ [schema |-> disk[k].schema, arrays |-> disk[k].arrays] = buf[1]

\* The bbox C5 expects an incoming annotation to be stored with.
ExpectedBBox(ann) ==
    IF ann.bbox.kind = "bbox" /\ ann.bbox.coords # ZeroCoords
    THEN [coords |-> ann.bbox.coords, format |-> ann.bbox.format]
    ELSE [coords |-> mask_to_bbox(to_mask(from_urle(ann.mask))), format |-> "xywh"]

\* C5: after a call for an item a shard holds, with annotations that each have
\* a mask, the item's stored list is the incoming list in its order, each mask
\* compressed, each bbox the given one when present and not all-zero and the
\* rectangle of the mask when missing or all-zero.
StoredAnnotationsAreIncoming ==
    ( /\ Finished(1)
      /\ \A i \in DOMAIN call[1].anns : call[1].anns[i].mask.kind = "urle" ) =>
        \A k \in HoldingShards(before[1], call[1].id) :
            LET stored == ObjectsOf(disk[k], call[1].id)
                anns == call[1].anns
            IN /\ AnnIds(stored) = AnnIds(anns)
               /\ \A i \in DOMAIN anns :
                     /\ stored[i].mask = from_urle(anns[i].mask)
                     /\ stored[i].bbox.kind = "bbox"
                     /\ stored[i].bbox.coords = ExpectedBBox(anns[i]).coords
                     /\ stored[i].bbox.format = ExpectedBBox(anns[i]).format

\* C6: a call that repeats the arguments of the call before it, both having
\* returned, leaves every shard as the first call left it.
UpdateIsIdempotent ==
    (Returned(1) /\ prev[1].repeats) => disk = before[1]

\* The transaction other than p.
Other(p) == CHOOSE q \in Txs : q # p

\* The shard that holds an item of the dataset.
ShardOf(item_id) == CHOOSE k \in Shards : item_id \in Range(ShardIds[k])

\* Both calls are over, for items of one shard that each read before any write
\* of that shard began.
BothReadBeforeWrite ==
    /\ \A p \in Txs : pc[p] = "idle" /\ result[p] # "none"
    /\ ShardOf(call[1].id) = ShardOf(call[2].id)
    /\ \A p \in Txs : ShardOf(call[1].id) \in log.clean[p]

\* C7: when two calls for items of one shard both read the shard before either
\* writes it, both return without an error, the shard is the table the second
\* writer built from what it read, with the second writer's annotations, and
\* the item of the first writer has the annotations it had before.
SecondWriterClobbersFirst ==
    BothReadBeforeWrite =>
        LET k == ShardOf(call[1].id)
            second == log.closer[k]
            first == Other(second)
        IN /\ \A p \in Txs : result[p] = "ok"
           /\ second \in Txs
           /\ disk[k].complete
           /\ [schema |-> disk[k].schema, arrays |-> disk[k].arrays] = buf[second]
           /\ AnnIds(ObjectsOf(disk[k], call[second].id)) = AnnIds(call[second].anns)
           /\ call[first].id # call[second].id =>
                 AnnIds(ObjectsOf(disk[k], call[first].id))
                     = AnnIds(ObjectsOf(before[first][k], call[first].id))

\* Two items of one shard, two different lists: the first writer's list is gone.
SecondWriterClobbersFirstWitness ==
    /\ BothReadBeforeWrite
    /\ call[1].id # call[2].id
    /\ call[1].anns # call[2].anns
    /\ log.closer[ShardOf(call[1].id)] = 2
    /\ AnnIds(ObjectsOf(disk[ShardOf(call[1].id)], call[1].id)) # AnnIds(call[1].anns)

\* A value that has every field of its type, at every level.
RECURSIVE Complete(_, _)
Complete(t, x) ==
    \/ x.k = "null"
    \/ CASE t.k = "string" -> TRUE
         [] t.k = "list" -> \A i \in DOMAIN x.v : Complete(t.e, x.v[i])
         [] t.k = "struct" ->
                /\ DOMAIN x.v = FieldNames(t)
                /\ \A j \in DOMAIN t.f : Complete(t.f[j].t, x.v[t.f[j].name])
         [] t.k = "ext" -> Complete(t.s, x)

CompleteColumn == \A i \in DOMAIN cv.data : Complete(ConvertTypes[cv.type], cv.data[i])

\* C8: a column of values of its type, with every field, converts without an
\* error to an array that decodes to the same values, every null in its place.
ConvertRoundTrips ==
    (cv.state = "done" /\ CompleteColumn) => cv.out.ok /\ cv.out.arr = cv.data

\* C9: for a list type, a row is a null list after the conversion iff it was
\* one before, and a list keeps its length and its elements in their order.
ListNullsAndOrderKept ==
    (cv.state = "done" /\ ConvertTypes[cv.type].k = "list" /\ CompleteColumn) =>
        /\ cv.out.ok
        /\ Len(cv.out.arr) = Len(cv.data)
        /\ \A i \in DOMAIN cv.data :
              /\ cv.data[i].k = "null" <=> cv.out.arr[i].k = "null"
              /\ cv.data[i].k = "list" =>
                    /\ cv.out.arr[i].k = "list"
                    /\ Len(cv.out.arr[i].v) = Len(cv.data[i].v)
                    /\ \A j \in DOMAIN cv.data[i].v :
                          cv.data[i].v[j].k = "str" => cv.out.arr[i].v[j] = cv.data[i].v[j]

\* C10: for a struct type, a declared field that no input value has comes out
\* null in every row, without an error, and a string field an input value has
\* comes out under its name.
StructAbsentFieldIsNull ==
    (cv.state = "done" /\ ConvertTypes[cv.type].k = "struct") =>
        LET t == ConvertTypes[cv.type] IN
        /\ cv.out.ok
        /\ \A i \in DOMAIN cv.data : \A j \in DOMAIN t.f :
              LET n == t.f[j].name IN
              /\ (n \notin InferredFields(cv.data) /\ cv.out.arr[i].k = "struct") =>
                    cv.out.arr[i].v[n] = Null
              /\ (cv.data[i].k = "struct" /\ n \in DOMAIN cv.data[i].v
                    /\ cv.data[i].v[n].k = "str") =>
                    cv.out.arr[i].v[n] = cv.data[i].v[n]

\* A value that has, where the type declares a primitive, something that is
\* neither null nor of the primitive type, at any depth of lists and structs.
RECURSIVE PrimitiveMismatch(_, _)
PrimitiveMismatch(t, x) ==
    CASE t.k = "string" -> x.k \notin {"null", "str"}
      [] t.k = "list" -> x.k = "list" /\ \E i \in DOMAIN x.v : PrimitiveMismatch(t.e, x.v[i])
      [] t.k = "struct" ->
            /\ x.k = "struct"
            /\ \E j \in DOMAIN t.f :
                  /\ t.f[j].name \in DOMAIN x.v
                  /\ PrimitiveMismatch(t.f[j].t, x.v[t.f[j].name])
      [] t.k = "ext" -> PrimitiveMismatch(t.s, x)

MismatchedColumn ==
    \E i \in DOMAIN cv.data : PrimitiveMismatch(ConvertTypes[cv.type], cv.data[i])

\* C11: a column with a value whose shape is not the one of the primitive type
\* declared for its place, at any nesting depth, makes convert_field raise: the
\* caller gets no array and never writes the field.
MismatchRaisesAndStoresNothing ==
    (cv.state # "input" /\ MismatchedColumn) =>
        /\ cv.state = "done"
        /\ ~cv.out.ok
        /\ cv.out.arr = <<>>

\* A list where a string is declared, inside a list and inside a struct.
MismatchRaisesAndStoresNothingWitness ==
    /\ cv.state = "done"
    /\ ConvertTypes[cv.type].k \in {"list", "struct"}
    /\ Len(cv.data) = 2
    /\ PrimitiveMismatch(ConvertTypes[cv.type], cv.data[2])
    /\ ~PrimitiveMismatch(ConvertTypes[cv.type], cv.data[1])
    /\ cv.data[1].k # "null"
    /\ ~cv.out.ok

\* C12: no call of register_extension_types raises, and after every call from
\* the second on the registry holds the names it held after the first.
RegistrationIsIdempotent ==
    /\ ~reg.raised
    /\ (reg.calls >= 1 /\ reg.i = 0) =>
          /\ reg.names = reg.first
          /\ Range(pa_types) \subseteq reg.names

\* The third call has returned; some of the types were known before the first.
RegistrationIsIdempotentWitness ==
    /\ reg.calls = 3
    /\ reg.i = 0
    /\ reg.names = Range(pa_types)
    /\ reg.first = reg.names

\* C13: to_xywh(to_xyxy(b)) has the xywh coordinates of b, its is_normalized
\* flag and its confidence.
FormatRoundTripLosesNothing ==
    box.state = "format" =>
        /\ box.out.format = "xywh"
        /\ box.out.coords = xywh_coords(box.b)
        /\ box.out.is_normalized = box.b.is_normalized
        /\ box.out.confidence = box.b.confidence

\* C14: denormalize(h, w) of normalize(h, w) of b is b: its coordinates, its
\* format, its is_normalized flag and its confidence.
NormalizeRoundTripIsIdentity ==
    box.state = "normalize" =>
        /\ box.out.coords = box.b.coords
        /\ box.out.format = box.b.format
        /\ box.out.is_normalized = box.b.is_normalized
        /\ box.out.confidence = box.b.confidence

\* The rectangle [x, y, w, h] holds every foreground pixel of the mask and has
\* one on each of its four sides.
TightRectangle(mask, xywh) ==
    LET fg == {rc \in (DOMAIN mask) \X (DOMAIN mask[1]) : mask[rc[1]][rc[2]] = 1}
        left == xywh[1] + 1
        top == xywh[2] + 1
        right == xywh[1] + xywh[3]
        bottom == xywh[2] + xywh[4]
    IN /\ \A rc \in fg : top <= rc[1] /\ rc[1] <= bottom /\ left <= rc[2] /\ rc[2] <= right
       /\ \E rc \in fg : rc[1] = top
       /\ \E rc \in fg : rc[1] = bottom
       /\ \E rc \in fg : rc[2] = left
       /\ \E rc \in fg : rc[2] = right

\* C15: from_mask of a mask with a foreground pixel is the tight rectangle of
\* the foreground pixels, in xywh, with is_normalized false.
FromMaskIsTightUnnormalizedXywh ==
    box.state = "from_mask" =>
        /\ TightRectangle(box.mask, box.out.coords)
        /\ box.out.format = "xywh"
        /\ box.out.is_normalized = FALSE

\* The ids of the rows of a file other than the row of the item.
OtherIds(file, item_id) == Range(IdsOf(file)) \ {item_id}

HasLegacyObjects(file) ==
    \E i \in DOMAIN file.schema :
        file.schema[i].name = "objects" /\ file.schema[i].type = LegacyObjectsTypeName

\* C16: a call that rewrites a shard an earlier call has rewritten with a
\* migrated column detects no field of the previous types in it, migrates
\* nothing, and leaves the annotations of every row but the item's as they were.
MigratedShardIsNotMigratedAgain ==
    \A k \in Shards :
        (Returned(1) /\ written[1] = <<k>> /\ k \in prev[1].migrated) =>
            /\ DetectLegacy(before[1][k].schema).fields_to_update = <<>>
            /\ ~log.migrating[1]
            /\ \A id \in OtherIds(before[1][k], call[1].id) :
                  ObjectsOf(disk[k], id) = ObjectsOf(before[1][k], id)

\* The second shard was migrated by an earlier call and is rewritten again,
\* with other annotations for the item.
MigratedShardIsNotMigratedAgainWitness ==
    /\ Returned(1)
    /\ written[1] = <<2>>
    /\ 2 \in prev[1].migrated
    /\ disk[2] # before[1][2]
    /\ ObjectsOf(disk[2], <<"a", "1">>) # <<>>

\* An annotation in the current shape that is the old one but for its sources,
\* which are empty, and for a flat bbox, which is {coords, format "xywh"}.
IsMigrated(new, old) ==
    /\ new.id = old.id
    /\ new.view_id = old.view_id
    /\ new.mask = old.mask
    /\ new.category_name = old.category_name
    /\ new.mask_source = ""
    /\ new.bbox_source = ""
    /\ new.bbox.kind = "bbox"
    /\ new.bbox.coords = old.bbox.coords
    /\ old.bbox.kind = "flat" => new.bbox.format = "xywh"
    /\ old.bbox.kind = "bbox" => new.bbox = old.bbox

\* C17: a call that rewrites a shard whose objects column has the previous
\* type leaves every annotation of every row of the column migrated: the old
\* annotations of the other rows, and the ones it stores for the item.
LegacyColumnIsMigrated ==
    \A k \in Shards :
        (Returned(1) /\ written[1] = <<k>> /\ HasLegacyObjects(before[1][k])) =>
            /\ \A id \in OtherIds(before[1][k], call[1].id) :
                  LET new == ObjectsOf(disk[k], id)
                      old == ObjectsOf(before[1][k], id)
                  IN /\ Len(new) = Len(old)
                     /\ \A j \in DOMAIN old : IsMigrated(new[j], old[j])
            /\ LET new == ObjectsOf(disk[k], call[1].id)
                   old == call[1].prepared
               IN /\ Len(new) = Len(old)
                  /\ \A j \in DOMAIN old : IsMigrated(new[j], old[j])

\* The second shard had the previous type, with an annotation that has a flat
\* bbox and sources in its first row.
LegacyColumnIsMigratedWitness ==
    /\ Returned(1)
    /\ written[1] = <<2>>
    /\ HasLegacyObjects(before[1][2])
    /\ ObjectsOf(before[1][2], <<"a", "1">>)[1].bbox.kind = "flat"
    /\ ObjectsOf(before[1][2], <<"a", "1">>)[1].mask_source # ""
    /\ ObjectsOf(disk[2], <<"a", "1">>)[1].bbox.format = "xywh"

\* C18: a call that ends with an error raised while the columns of a shard
\* are migrated or encoded has written nothing: every shard file, the one at
\* hand too, is as it was before the call.
FailedMigrationLeavesShard ==
    (pc[1] = "idle" /\ result[1] = "error") =>
        /\ written[1] = <<>>
        /\ disk = before[1]

\* The migration of the shard that holds the item has raised on a null cell.
FailedMigrationLeavesShardWitness ==
    /\ pc[1] = "idle"
    /\ result[1] = "error"
    /\ ~PrepareFails(call[1].anns)
    /\ Shard(1) \in HoldingShards(before[1], call[1].id)
    /\ NoneObjects \in Range(Column(disk[Shard(1)], "objects"))

\* The names of the records of the file, in their order.
RecordNames(records) == [i \in DOMAIN records |-> records[i].name]

\* The last stat written under a name that was written.
LastWritten(name) ==
    LET at == {i \in DOMAIN stats.written : stats.written[i].name = name}
    IN stats.written[CHOOSE i \in at : \A j \in at : j <= i]

\* The names of a sequence of records other than name, in their order.
RECURSIVE NamesBut(_, _)
NamesBut(records, name) ==
    IF records = <<>> THEN <<>>
    ELSE (IF Head(records).name # name THEN <<Head(records)>> ELSE <<>>)
         \o NamesBut(Tail(records), name)

\* C19: after any sequence of to_json calls on one file, the file has one
\* record for each name written and none for another name, the record of a
\* name has the type and the histogram of the stat written last under it, and
\* the last call left the records of the other names as they were, in their
\* order.
StatsUpsertedByName ==
    stats.written # <<>> =>
        /\ stats.exists
        /\ \A i, j \in DOMAIN stats.records :
              stats.records[i].name = stats.records[j].name => i = j
        /\ Range(RecordNames(stats.records)) = {stats.written[i].name : i \in DOMAIN stats.written}
        /\ \A i \in DOMAIN stats.records :
              LET stat == LastWritten(stats.records[i].name) IN
              /\ stats.records[i].type = stat.type
              /\ stats.records[i].histogram = stat.histogram
        /\ LET name == stats.written[Len(stats.written)].name IN
           NamesBut(stats.records, name) = NamesBut(stats.prior, name)

\* A stat was written again, under the name of the first of three records and
\* with another type.
StatsUpsertedByNameWitness ==
    /\ Len(stats.written) = 4
    /\ Len(stats.prior) = 3
    /\ stats.written[4].name = stats.prior[1].name
    /\ stats.written[4].type # stats.prior[1].type
    /\ Len(stats.records) = 3

\* C20: a run computes a file only when the output directory had no file of
\* its name when the run listed the split, so no run computes a file that an
\* earlier run has completed, and an output file a run has completed stays
\* complete and as that run wrote it through every later run and failure.
CompletedOutputIsKept ==
    /\ \A k \in EmbKeys :
          emb.done[k] # 0 => emb.out[k] = [status |-> "complete", run |-> emb.done[k]]
    /\ \A c \in emb.computed : emb.done[c[2]] = 0 \/ emb.done[c[2]] >= c[1]
    /\ emb.pc = "open" => emb.out[EmbKey].status = "absent"

\* A run failed after the first file; the next run has passed that file and
\* completed another.
CompletedOutputIsKeptWitness ==
    /\ emb.runs = 2
    /\ emb.done[<<1, 1>>] = 1
    /\ emb.done[<<1, 2>>] = 2
    /\ emb.out[<<1, 1>>] = [status |-> "complete", run |-> 1]
    /\ <<2, <<1, 1>>>> \notin emb.computed

\* C26: a call that rewrites a shard whose objects column has the previous
\* type stores the incoming annotations for the item with the mask_source and
\* the bbox_source the caller gave them; only the old annotations of the other
\* rows get the empty sources of the migration.
TargetKeepsCallerSources ==
    \A k \in Shards :
        (Returned(1) /\ written[1] = <<k>> /\ HasLegacyObjects(before[1][k])) =>
            LET stored == ObjectsOf(disk[k], call[1].id)
                anns == call[1].anns
            IN /\ AnnIds(stored) = AnnIds(anns)
               /\ \A i \in DOMAIN anns :
                     /\ stored[i].mask_source = anns[i].mask_source
                     /\ stored[i].bbox_source = anns[i].bbox_source

\* C22: a call reads the shards one after the other in the natural-key order
\* of their names and stops at the first match: it writes at most one shard,
\* and the shard it has written is the last one it reads.
ScanStopsAtFirstMatch ==
    /\ log.reads[1] = SubSeq(ScanOrder, 1, Len(log.reads[1]))
    /\ Len(written[1]) <= 1
    /\ written[1] # <<>> => log.reads[1][Len(log.reads[1])] = written[1][1]

\* C28: when two concurrent calls for items of different shards are both
\* over, in whatever order their reads and writes came, neither has raised,
\* and each shard is complete and holds the annotations of the call for its
\* item.
DifferentShardsDoNotInterfere ==
    ( /\ \A p \in Txs : pc[p] = "idle" /\ result[p] # "none"
      /\ ShardOf(call[1].id) # ShardOf(call[2].id) ) =>
        \A p \in Txs :
            LET k == ShardOf(call[p].id) IN
            /\ result[p] = "ok"
            /\ disk[k].complete
            /\ AnnIds(ObjectsOf(disk[k], call[p].id)) = AnnIds(call[p].anns)

\* C30: from_json of a file gives, under the name of the stat that to_json
\* wrote last, one stat, equal to the written one in name, type, histogram
\* and range.
StatRoundTrips ==
    stats.loaded # <<>> =>
        LET stat == stats.written[Len(stats.written)]
            same == {i \in DOMAIN stats.loaded : stats.loaded[i].name = stat.name}
        IN /\ Cardinality(same) = 1
           /\ \A i \in same :
                 /\ stats.loaded[i].type = stat.type
                 /\ stats.loaded[i].histogram = stat.histogram
                 /\ stats.loaded[i].range = stat.range

\* C29: once a run of process_dataset has returned, whatever runs failed
\* before it and wherever they failed, the output directory has a complete
\* file for every input file of every split.
RerunCompletesEveryOutput ==
    (emb.pc = "idle" /\ emb.returned) =>
        \A k \in EmbKeys : emb.out[k].status = "complete"

\* The objects of the item that name an image field of the dataset.
ShownObjects ==
    {obj \in Range(Flatten(details.columns)) : obj.view_id \in Range(Views)}

\* The places <<source, view, index>> of the entries of an object.
PlacesOf(obj) ==
    {place \in UNION {UNION {{<<s, v, i>> : i \in DOMAIN details.out[s][v]} :
                                 v \in DOMAIN details.out[s]} : s \in DOMAIN details.out} :
        details.out[place[1]][place[2]][place[3]].id = obj.id}

\* C21: every entry load_item_details returns is the entry of an object of
\* the item, grouped under the source mask_source when the object has one,
\* else bbox_source when it has one, else "Ground truth", and under the view
\* that is its view_id; an object of a view of the dataset has one entry.
DisplayedSourceGroupsObjects ==
    details.state = "loaded" =>
        /\ \A s \in DOMAIN details.out : \A v \in DOMAIN details.out[s] :
              \A i \in DOMAIN details.out[s][v] :
                  \E obj \in ShownObjects : details.out[s][v][i].id = obj.id
        /\ \A obj \in ShownObjects : \A place \in PlacesOf(obj) :
              /\ place[1] = CASE obj.mask_source # "" -> obj.mask_source
                               [] obj.mask_source = "" /\ obj.bbox_source # "" -> obj.bbox_source
                               [] OTHER -> "Ground truth"
              /\ place[2] = obj.view_id
        /\ \A obj \in ShownObjects : Cardinality(PlacesOf(obj)) = 1

\* An object with both sources and one with none, in two views.
DisplayedSourceGroupsObjectsWitness ==
    /\ details.state = "loaded"
    /\ \E a, b \in ShownObjects :
          /\ a.mask_source = "sam" /\ a.bbox_source = "det" /\ a.view_id = "image"
          /\ b.mask_source = "" /\ b.bbox_source = "" /\ b.view_id = "depth"
          /\ PlacesOf(a) = {<<"sam", "image", 1>>}
          /\ PlacesOf(b) = {<<"Ground truth", "depth", 1>>}

\* The columns of a file under a name.
ColumnsNamed(file, name) == {i \in DOMAIN file.schema : file.schema[i].name = name}

\* The type of the one column of a file under a name, "" when there is none
\* or more than one.
TypeNamed(file, name) ==
    IF Cardinality(ColumnsNamed(file, name)) = 1
    THEN file.schema[CHOOSE i \in ColumnsNamed(file, name) : TRUE].type
    ELSE ""

\* The value of a column in the row of an id.
CellOf(file, name, id) ==
    Column(file, name)[CHOOSE i \in DOMAIN IdsOf(file) : IdsOf(file)[i] = id]

LegacySignatures == {LegacyObjectsTypeName, LegacyImageTypeName}

HasLegacySignature(file) ==
    \E i \in DOMAIN file.schema : file.schema[i].type \in LegacySignatures

\* C23: a call for an item of a shard, with annotations it can prepare,
\* migrates iff a column of the shard has one of the two legacy type strings:
\* a shard without one, whatever the types of its columns, is rewritten with
\* the schema it had, without migration and without an error, and a rewrite
\* of a shard with one migrates.
TypeStringDecidesMigration ==
    \A k \in Shards :
        ( /\ Finished(1)
          /\ ~PrepareFails(call[1].anns)
          /\ HoldingShards(before[1], call[1].id) = {k} ) =>
            /\ ~HasLegacySignature(before[1][k]) =>
                  /\ result[1] = "ok"
                  /\ written[1] = <<k>>
                  /\ ~log.migrating[1]
                  /\ disk[k].schema = before[1][k].schema
            /\ (HasLegacySignature(before[1][k]) /\ result[1] = "ok") =>
                  log.migrating[1]

\* How often an id is in the id column of a file.
IdCount(file, id) == Cardinality({i \in DOMAIN IdsOf(file) : IdsOf(file)[i] = id})

MigratedType(type) ==
    CASE type = LegacyObjectsTypeName -> ObjectsTypeName
      [] type = LegacyImageTypeName -> ImageTypeName
      [] OTHER -> type

\* C27: a call that has rewritten a shard in which it detected a column of a
\* legacy type, under whatever name, leaves the shard with the column names
\* it had, each once, every column with the type it had but the detected
\* ones, which have the current type.
SchemaNamesKept ==
    \A k \in Shards :
        (Returned(1) /\ written[1] = <<k>> /\ HasLegacySignature(before[1][k])) =>
            LET old == before[1][k]
                new == disk[k]
            IN /\ Len(new.schema) = Len(old.schema)
               /\ SchemaNames(new.schema) = SchemaNames(old.schema)
               /\ \A name \in SchemaNames(old.schema) :
                     /\ Cardinality(ColumnsNamed(new, name)) = 1
                     /\ TypeNamed(new, name) = MigratedType(TypeNamed(old, name))

====
